---- MODULE Spec2Model ----
(***************************************************************************)
(* Karere backend: the session synchronization engine.                     *)
(*                                                                         *)
(* Connection Manager, Relay Protocol Server and Sync Engine are modelled  *)
(* from backend.js (src/backend/download-all-contact-data.js, the copy at  *)
(* lines 1910-3808); the Local Store from database.js                      *)
(* (src/unnamed/part_003).  Every handler is cut at the awaits where       *)
(* another handler can run; the position of a handler that is suspended at *)
(* an await is kept in a pc field.                                         *)
(***************************************************************************)
EXTENDS Integers, Sequences, FiniteSets, TLC

\* ------------------------------------------------------------------------
\* Program constants
\* ------------------------------------------------------------------------
MAX_RECONNECT_ATTEMPTS == 5
RATE_LIMIT_MS == 60000        \* syncChatMessages: "Less than 1 minute"
HISTORY_LIMIT == 500          \* downloadMessageHistory(jid, 500)
BATCH_SIZE == 50              \* downloadMessageHistory: batchSize
HISTORY_SET_MESSAGES == 10    \* handleHistorySet: chat.messages.slice(0, 10)

\* ------------------------------------------------------------------------
\* Bounds of the model
\* ------------------------------------------------------------------------
MaxClients == 2
MaxPasses == 2                \* open handlers that have not returned
MaxTicks == 2                  \* steps of the clock
MaxSnapshot == 2               \* messages of a chat in a history snapshot

Clients == 1..MaxClients
NoClient == 0

Jids == {"c1", "c2"}
Passes == 1..MaxPasses

Null == "null"
NoTime == 0 - 1               \* a NULL timestamp
TickMs == 45 * 1000           \* one step of the clock
StartMs == 400 * 1000         \* Date.now() when the process starts

\* The upstream messages of the model: key.id, key.remoteJid, key.fromMe,
\* messageTimestamp (seconds) and the shape of the payload (msg.message).
UpMsg(id, jid, fromMe, ts, shape) ==
    [id |-> id, jid |-> jid, fromMe |-> fromMe, ts |-> ts, shape |-> shape]
Msgs == { UpMsg("m1", "c1", FALSE, 100, "conversation"),
          UpMsg("m2", "c1", FALSE, 390, "imageMessage"),
          UpMsg("m3", "c2", TRUE, 200, "conversation"),
          UpMsg("m4", "c2", FALSE, 300, "none") }
MsgIds == { m.id : m \in Msgs }
\* a long chat: c1 with BATCH_SIZE older text messages, so that a fetch of
\* BATCH_SIZE messages comes back full
Bulk == { UpMsg("b" \o ToString(i), "c1", FALSE, i, "conversation") : i \in 1..BATCH_SIZE }
\* a message that reaches the account after the process started
Late == { UpMsg("m5", "c1", FALSE, 395, "conversation") }
\* chat.name of the upstream chats (c2 has none)
UpName(jid) == IF jid = "c1" THEN "Alice" ELSE Null

\* initialChatsPayload: null, or { chats } (the chats are kept by their jid)
NullPayload == [set |-> FALSE, chats |-> {}]
Payload(js) == [set |-> TRUE, chats |-> js]

VARIABLES
    \* Connection Manager (backend.js, "Global state")
    baileysConnectionStatus,   \* 'closed' | 'close' | 'connecting' | 'open' | undefined
    reconnectAttempts,
    sock,                      \* FALSE = null, TRUE = a socket object
    pendingConnects,           \* calls of connectToWhatsApp() that are due: the
                               \* call of initializeBackend and the setTimeout timers
    \* the upstream side: the auth directory and the session held by sock
    authInfo,                  \* baileys_auth_info holds registered credentials
    session,                   \* "none" | "new" | "connecting" | "open"
    sessionAuth,               \* the session was created from stored credentials
    qrShown,                   \* the session has issued a pairing challenge
    remote,                    \* the messages the upstream account holds
    \* Relay Protocol Server
    clientSocket,
    wsOpen,                    \* the websocket connections that are open
    clientIsWaitingForChats,
    initialChatsPayload,
    gic,                       \* handleGetInitialChats suspended at await getChats()
    \* Local Store (database.js)
    chats,                     \* rows of table chats
    messages,                  \* rows of table messages
    settings,                  \* table settings, key -> value
    upsert,                    \* the saveMessage call that is between its two
                               \* awaited statements, if any
    contacts,                  \* rows of table contacts
    \* Sync Engine: the open branch of handleConnectionUpdate, one record per
    \* invocation that has not returned
    pass,
    now,                       \* Date.now(), in milliseconds
    \* observation of the run
    sent,                      \* the sendToFrontend calls of the last step
    calls,                     \* the upstream calls issued by the last step
    lastOp,                    \* the handler that made the last step
    lastArg,                   \* what it was applied to (a jid, a message id, a client)
    prevAttempts,              \* reconnectAttempts before the last step
    failStreak,                \* failed attempts since the counter was last reset
    terminalFailure,           \* 'connection_failed' has been passed to sendToFrontend
    lastChecked,               \* jid -> when syncChatMessages last fetched for the chat
    dueCause,                  \* what scheduled the connectToWhatsApp() that is due
    dl,                        \* pass -> the batch loop of downloadMessageHistory so
                               \* far: fetches issued, messages stored, and whether a
                               \* batch held only messages that were stored already
    outcome,                   \* what the Database method called by the last step
                               \* returned to its caller, if the step was such a call
    asker                      \* the attached client that asked for the chat list while
                               \* there was none, and has not been sent one since

connVars == <<baileysConnectionStatus, reconnectAttempts, sock, pendingConnects>>
upVars == <<authInfo, session, sessionAuth, qrShown, remote>>
relayVars == <<clientSocket, wsOpen, clientIsWaitingForChats, initialChatsPayload, gic>>
storeVars == <<chats, messages, settings, upsert, contacts>>
syncVars == <<pass, now>>
obsVars == <<sent, calls, lastOp, lastArg, prevAttempts, failStreak, terminalFailure,
             lastChecked, dueCause, dl, outcome, asker>>
vars == <<connVars, upVars, relayVars, storeVars, syncVars, obsVars>>

\* ------------------------------------------------------------------------
\* Relay Protocol Server: sendToFrontend
\* ------------------------------------------------------------------------
\* The event is written to clientSocket when there is one and it is OPEN;
\* otherwise it is dropped (to = NoClient).
sendToFrontend(type, data) ==
    [type |-> type, data |-> data,
     to |-> IF clientSocket # NoClient /\ clientSocket \in wsOpen
            THEN clientSocket ELSE NoClient]

Send(type) == sendToFrontend(type, NullPayload)

Delivered(type) == \E i \in DOMAIN sent : sent[i].type = type /\ sent[i].to # NoClient
Emitted(type) == \E i \in DOMAIN sent : sent[i].type = type


\* ------------------------------------------------------------------------
\* Local Store (database.js)
\* ------------------------------------------------------------------------
\* A database state is [chats, messages]; PRAGMA foreign_keys = ON.
EmptyDb == [chats |-> {}, messages |-> {}]
Db == [chats |-> chats, messages |-> messages]

ChatRow(jid, name, lastMessageId, timestamp, t) ==
    [jid |-> jid, name |-> name, last_message_id |-> lastMessageId,
     last_message_timestamp |-> timestamp, unread_count |-> 0,
     is_archived |-> FALSE, updated_at |-> t \div 1000]

MessageRow(id, chatJid, fromMe, content, timestamp, messageType, status) ==
    [id |-> id, chat_jid |-> chatJid, from_me |-> fromMe, message_type |-> messageType,
     content |-> content, timestamp |-> timestamp, status |-> status]

HasChat(db, jid) == \E c \in db.chats : c.jid = jid
HasMessage(db, id) == \E m \in db.messages : m.id = id

\* saveChat: INSERT OR REPLACE INTO chats.  REPLACE deletes the row that holds
\* the jid, and messages.chat_jid REFERENCES chats (jid) ON DELETE CASCADE.
SaveChat(db, jid, name, lastMessageId, timestamp, t) ==
    [chats |-> {c \in db.chats : c.jid # jid}
               \cup {ChatRow(jid, name, lastMessageId, timestamp, t)},
     messages |-> IF HasChat(db, jid)
                  THEN {m \in db.messages : m.chat_jid # jid}
                  ELSE db.messages]

\* a row of table contacts as saveContact(jid, name) writes it
ContactRow(jid, name) == [jid |-> jid, name |-> name, phone_number |-> Null]

\* saveMessage rejects (FOREIGN KEY constraint failed) when the chat has no row.
SaveMessageOk(db, chatJid) == HasChat(db, chatJid)

\* the INSERT OR REPLACE INTO messages of saveMessage
InsertMessage_NoReplace(rows, row) == rows \cup {row}
InsertMessage(rows, row) == {m \in rows : m.id # row.id} \cup {row}

\* the UPDATE chats SET last_message_id = ?, last_message_timestamp = ?,
\* updated_at = now WHERE jid = ? of saveMessage
UpdateLastMessage(rows, chatJid, id, timestamp, t) ==
    {IF c.jid = chatJid
     THEN [c EXCEPT !.last_message_id = id,
                    !.last_message_timestamp = timestamp,
                    !.updated_at = t \div 1000]
     ELSE c : c \in rows}

\* saveMessage: the insert, then UPDATE chats SET last_message_id, ...
SaveMessage(db, id, chatJid, fromMe, content, timestamp, messageType, status, t) ==
    IF ~SaveMessageOk(db, chatJid) THEN db
    ELSE [chats |-> UpdateLastMessage(db.chats, chatJid, id, timestamp, t),
          messages |-> InsertMessage(db.messages,
                          MessageRow(id, chatJid, fromMe, content, timestamp,
                                     messageType, status))]

\* getMessage(id): the row with this id, if any (the dedup check)
GetMessage(db, id) == {m \in db.messages : m.id = id}

\* getChats(limit): ORDER BY updated_at DESC LIMIT ?  (rows of equal updated_at
\* come in an order the database picks)
RECURSIVE OrderChats(_)
OrderChats(rows) ==
    IF rows = {} THEN <<>>
    ELSE LET top == CHOOSE c \in rows : \A d \in rows : d.updated_at <= c.updated_at
         IN <<top>> \o OrderChats(rows \ {top})
\* SELECT c.*, m.content as last_message_content, m.timestamp as
\* last_message_timestamp ... LEFT JOIN messages m ON c.last_message_id = m.id:
\* the joined columns are NULL when no message row has the id, and the joined
\* last_message_timestamp is the one the returned row carries
JoinLastMessage(db, c) ==
    LET ms == {m \in db.messages : m.id = c.last_message_id}
    IN IF ms = {}
       THEN [last_message_content |-> Null, last_message_timestamp |-> NoTime] @@ c
       ELSE LET m == CHOOSE x \in ms : TRUE
            IN [last_message_content |-> m.content,
                last_message_timestamp |-> m.timestamp] @@ c
GetChats(db, limit) ==
    LET all == OrderChats({c \in db.chats : c.is_archived = FALSE})
        rows == IF Len(all) <= limit THEN all ELSE SubSeq(all, 1, limit)
    IN [i \in DOMAIN rows |-> JoinLastMessage(db, rows[i])]

\* getMessages(chatJid, limit, offset): ORDER BY timestamp DESC LIMIT ? OFFSET ?,
\* then reversed
RECURSIVE OrderMessages(_)
OrderMessages(rows) ==
    IF rows = {} THEN <<>>
    ELSE LET top == CHOOSE m \in rows : \A d \in rows : d.timestamp <= m.timestamp
         IN <<top>> \o OrderMessages(rows \ {top})
Reverse_Keep(q) == q
\* messages.reverse()
Reverse(q) == [i \in 1..Len(q) |-> q[Len(q) + 1 - i]]
GetMessagesAt(db, chatJid, limit, offset) ==
    LET all == OrderMessages({m \in db.messages : m.chat_jid = chatJid})
        last == IF Len(all) <= offset + limit THEN Len(all) ELSE offset + limit
    IN Reverse(IF Len(all) <= offset THEN <<>> ELSE SubSeq(all, offset + 1, last))
\* getMessages(chatJid, limit), offset = 0
GetMessages(db, chatJid, limit) == GetMessagesAt(db, chatJid, limit, 0)

\* getSetting(key, defaultValue)
GetSetting(key, defaultValue) ==
    IF key \in DOMAIN settings THEN settings[key] ELSE defaultValue


\* setSetting(key, value)
SetSetting(tbl, key, value) ==
    [k \in DOMAIN tbl \cup {key} |-> IF k = key THEN value ELSE tbl[k]]

\* ------------------------------------------------------------------------
\* Initial state: the module-level state of backend.js once main() has
\* called initializeBackend(), whose call of connectToWhatsApp() is due.
\* The auth directory and the database file are what an earlier run left.
\* ------------------------------------------------------------------------
NoUpsert == [pc |-> "none", id |-> Null, chatJid |-> Null]

\* the promise of a Database write: resolved, or rejected with what
\* errorHandler.database(error, operation) returned
NoOutcome == [ok |-> TRUE, type |-> Null, operation |-> Null]
Resolved == [ok |-> TRUE, type |-> "resolved", operation |-> Null]
StorageError(operation) == [ok |-> FALSE, type |-> "database_error", operation |-> operation]

NoLoop == [fetches |-> 0, stored |-> 0, dry |-> FALSE]

IdlePass == [pc |-> "idle", list |-> <<>>, idx |-> 0, remaining |-> 0,
             lastSyncTime |-> 0, currentTime |-> 0, newMessages |-> 0,
             updated |-> FALSE, waitTime |-> 0]

InitProgram ==
    /\ baileysConnectionStatus = "closed"
    /\ reconnectAttempts = 0
    /\ sock = FALSE
    /\ pendingConnects = 1
    /\ session = "none"
    /\ sessionAuth = FALSE
    /\ qrShown = FALSE
    /\ clientSocket = NoClient
    /\ wsOpen = {}
    /\ clientIsWaitingForChats = FALSE
    /\ initialChatsPayload = NullPayload
    /\ gic = [pc |-> "none", chats |-> {}]
    /\ upsert = NoUpsert
    /\ contacts = {}
    /\ pass = [p \in Passes |-> IdlePass]
    /\ now = StartMs
    /\ sent = <<>>
    /\ calls = {}
    /\ lastOp = "init"
    /\ lastArg = Null
    /\ prevAttempts = 0
    /\ failStreak = 0
    /\ terminalFailure = FALSE
    /\ lastChecked = [j \in Jids |-> NoTime]
    /\ dueCause = "init"
    /\ dl = [p \in Passes |-> NoLoop]
    /\ outcome = NoOutcome
    /\ asker = NoClient

ghostVars == <<failStreak, terminalFailure, lastChecked, dueCause, dl>>

\* what every step records about itself
ObsAsk(op, arg, events, upstreamCalls, who) ==
    /\ sent' = events
    /\ calls' = upstreamCalls
    /\ lastOp' = op
    /\ lastArg' = arg
    /\ prevAttempts' = reconnectAttempts
    /\ outcome' = NoOutcome
    /\ asker' = who

\* what a call of a Database method by a client of the class records: the
\* method, its key and what the promise settled with
ObsCall(op, arg, out) ==
    /\ sent' = <<>>
    /\ calls' = {}
    /\ lastOp' = op
    /\ lastArg' = arg
    /\ prevAttempts' = reconnectAttempts
    /\ outcome' = out
    /\ asker' = asker

\* the asker stops being one when an initial_chats event is written to it
AskerAfter(events) ==
    IF \E i \in DOMAIN events : events[i].type = "initial_chats" /\ events[i].to = asker
    THEN NoClient ELSE asker

Obs(op, arg, events, upstreamCalls) ==
    ObsAsk(op, arg, events, upstreamCalls, AskerAfter(events))

\* ------------------------------------------------------------------------
\* Connection Manager
\* ------------------------------------------------------------------------
Connected == sock /\ baileysConnectionStatus = "open"

CanRetry_OffByOne(n) == n <= MAX_RECONNECT_ATTEMPTS
\* reconnectAttempts < MAX_RECONNECT_ATTEMPTS
CanRetry(n) == n < MAX_RECONNECT_ATTEMPTS

\* connectToWhatsApp(), the try block runs to its end: a socket is made from
\* the stored auth state and the handlers are registered on it.
ConnectOk ==
    /\ pendingConnects > 0
    /\ pendingConnects' = pendingConnects - 1
    /\ sock' = TRUE
    /\ session' = "new"
    /\ sessionAuth' = authInfo
    /\ qrShown' = FALSE
    /\ Obs("connect_ok", dueCause, <<>>, {})
    /\ UNCHANGED <<baileysConnectionStatus, reconnectAttempts, authInfo, remote,
                   relayVars, storeVars, syncVars, ghostVars>>

\* connectToWhatsApp(), the try block throws: the catch block.
ConnectFail ==
    /\ pendingConnects > 0
    /\ IF CanRetry(reconnectAttempts)
       THEN /\ reconnectAttempts' = reconnectAttempts + 1
            /\ pendingConnects' = (pendingConnects - 1) + 1   \* setTimeout
            /\ dueCause' = "retry"
            /\ Obs("connect_fail", dueCause, <<>>, {})
            /\ UNCHANGED terminalFailure
       ELSE /\ pendingConnects' = pendingConnects - 1
            /\ Obs("connect_fail", dueCause, <<Send("connection_failed")>>, {})
            /\ terminalFailure' = TRUE
            /\ UNCHANGED <<reconnectAttempts, dueCause>>
    /\ failStreak' = failStreak + 1
    /\ UNCHANGED <<baileysConnectionStatus, sock, upVars, relayVars, storeVars,
                   syncVars, lastChecked, dl>>

\* baileysConnectionStatus = connection
UpdateStatus(connection) == connection

\* handleConnectionUpdate({ qr }): the update of a pairing challenge carries
\* no connection field.  qrErr: qrcode.toDataURL calls back with an error.
UpdateQr(qrErr) ==
    /\ session = "connecting"
    /\ ~sessionAuth
    /\ qrShown' = TRUE
    /\ baileysConnectionStatus' = UpdateStatus("undefined")
    /\ Obs("update_qr", Null, IF qrErr THEN <<>> ELSE <<Send("qr")>>, {})
    /\ UNCHANGED <<reconnectAttempts, sock, pendingConnects, authInfo, session,
                   sessionAuth, remote, relayVars, storeVars, syncVars, ghostVars>>

\* handleConnectionUpdate({ connection: 'connecting' })
UpdateConnecting ==
    /\ session = "new"
    /\ session' = "connecting"
    /\ baileysConnectionStatus' = UpdateStatus("connecting")
    /\ Obs("update_connecting", Null, <<Send("connection_status")>>, {})
    /\ UNCHANGED <<reconnectAttempts, sock, pendingConnects, authInfo, sessionAuth,
                   qrShown, remote, relayVars, storeVars, syncVars, ghostVars>>

\* the credentials are deleted unless fs.rm rejects
RmAuthInfo(rmFails) == IF rmFails THEN authInfo ELSE FALSE

\* the counter after a close with the logout cause
AfterLogout_KeepCounter(n) == n
AfterLogout(n) == 0

\* a close branch whose logout case is an if of its own, so that a logout
\* close goes on to the retry case and sets its timer too
UpdateClose_LogoutAlsoRetries(logout, rmFails) ==
    /\ session \in {"new", "connecting", "open"}
    /\ logout => sessionAuth
    /\ ~logout => ~rmFails
    /\ session' = "none"
    /\ baileysConnectionStatus' = UpdateStatus("close")
    /\ initialChatsPayload' = NullPayload
    /\ IF logout
       THEN /\ authInfo' = RmAuthInfo(rmFails)
            /\ reconnectAttempts' = 1
            /\ pendingConnects' = pendingConnects + 2
            /\ Obs("update_close_logout", Null, <<Send("connection_status")>>, {})
            /\ failStreak' = 0
            /\ dueCause' = "logout"
            /\ UNCHANGED terminalFailure
       ELSE /\ UNCHANGED authInfo
            /\ failStreak' = failStreak + 1
            /\ IF CanRetry(reconnectAttempts)
               THEN /\ reconnectAttempts' = reconnectAttempts + 1
                    /\ pendingConnects' = pendingConnects + 1
                    /\ Obs("update_close", Null, <<Send("connection_status")>>, {})
                    /\ dueCause' = "retry"
                    /\ UNCHANGED terminalFailure
               ELSE /\ Obs("update_close", Null,
                           <<Send("connection_status"), Send("connection_failed")>>, {})
                    /\ terminalFailure' = TRUE
                    /\ UNCHANGED <<reconnectAttempts, pendingConnects, dueCause>>
    /\ UNCHANGED <<sock, sessionAuth, qrShown, remote, clientSocket, wsOpen,
                   clientIsWaitingForChats, gic, storeVars, syncVars, lastChecked, dl>>

\* handleConnectionUpdate({ connection: 'close', lastDisconnect }).
\* logout: statusCode === DisconnectReason.loggedOut; rmFails: fs.rm rejects.
UpdateClose(logout, rmFails) ==
    /\ session \in {"new", "connecting", "open"}
    /\ logout => sessionAuth
    /\ ~logout => ~rmFails
    /\ session' = "none"
    /\ baileysConnectionStatus' = UpdateStatus("close")
    /\ initialChatsPayload' = NullPayload
    /\ IF logout
       THEN /\ authInfo' = RmAuthInfo(rmFails)
            /\ reconnectAttempts' = AfterLogout(reconnectAttempts)
            /\ pendingConnects' = pendingConnects + 1          \* setTimeout
            /\ Obs("update_close_logout", Null, <<Send("connection_status")>>, {})
            /\ failStreak' = 0
            /\ dueCause' = "logout"
            /\ UNCHANGED terminalFailure
       ELSE /\ UNCHANGED authInfo
            /\ failStreak' = failStreak + 1
            /\ IF CanRetry(reconnectAttempts)
               THEN /\ reconnectAttempts' = reconnectAttempts + 1
                    /\ pendingConnects' = pendingConnects + 1  \* setTimeout
                    /\ Obs("update_close", Null, <<Send("connection_status")>>, {})
                    /\ dueCause' = "retry"
                    /\ UNCHANGED terminalFailure
               ELSE /\ Obs("update_close", Null,
                           <<Send("connection_status"), Send("connection_failed")>>, {})
                    /\ terminalFailure' = TRUE
                    /\ UNCHANGED <<reconnectAttempts, pendingConnects, dueCause>>
    /\ UNCHANGED <<sock, sessionAuth, qrShown, remote, clientSocket, wsOpen,
                   clientIsWaitingForChats, gic, storeVars, syncVars, lastChecked, dl>>

\* handleConnectionUpdate({ connection: 'open' }) up to await isFirstTimeLogin().
\* A session that began without credentials opens after its challenge was
\* answered, and creds.update has stored the new credentials (saveCreds).
FreePass(p) == pass[p].pc = "idle" /\ \A q \in Passes : q < p => pass[q].pc # "idle"

UpdateOpen(slots) ==
    /\ session = "connecting"
    /\ sessionAuth \/ qrShown
    /\ \E p \in 1..slots :
        /\ FreePass(p)
        /\ pass' = [pass EXCEPT ![p] = [IdlePass EXCEPT !.pc = "isFirstLogin"]]
    /\ session' = "open"
    /\ authInfo' = TRUE
    /\ baileysConnectionStatus' = UpdateStatus("open")
    /\ reconnectAttempts' = 0
    /\ failStreak' = 0
    /\ Obs("update_open", Null, <<Send("baileys_ready"), Send("connection_status")>>, {})
    /\ UNCHANGED <<sock, pendingConnects, sessionAuth, qrShown, remote, relayVars,
                   storeVars, now, terminalFailure, lastChecked, dueCause, dl>>

\* ------------------------------------------------------------------------
\* Relay Protocol Server
\* ------------------------------------------------------------------------
\* a connection handler that also hands the new client the status event that
\* was produced before it attached
ClientConnect_Replays(c) ==
    /\ c \notin wsOpen
    /\ wsOpen' = wsOpen \cup {c}
    /\ clientSocket' = c
    /\ Obs("ws_connection", c,
           <<[type |-> "connection_status", data |-> NullPayload, to |-> c]>>
           \o (IF baileysConnectionStatus = "open"
               THEN <<[type |-> "baileys_ready", data |-> NullPayload, to |-> c]>>
               ELSE <<>>), {})
    /\ UNCHANGED <<connVars, upVars, clientIsWaitingForChats, initialChatsPayload, gic,
                   storeVars, syncVars, ghostVars>>

\* handleWebSocketConnection(ws)
ClientConnect(c) ==
    /\ c \notin wsOpen
    /\ wsOpen' = wsOpen \cup {c}
    /\ clientSocket' = c
    /\ Obs("ws_connection", c,
           IF baileysConnectionStatus = "open"
           THEN <<[type |-> "baileys_ready", data |-> NullPayload, to |-> c]>>
           ELSE <<>>, {})
    /\ UNCHANGED <<connVars, upVars, clientIsWaitingForChats, initialChatsPayload, gic,
                   storeVars, syncVars, ghostVars>>

\* ws.on('close') that also drops the cached snapshot
ClientClose_DropsSnapshot(c) ==
    /\ c \in wsOpen
    /\ wsOpen' = wsOpen \ {c}
    /\ clientSocket' = NoClient
    /\ clientIsWaitingForChats' = FALSE
    /\ initialChatsPayload' = NullPayload
    /\ ObsAsk("ws_close", c, <<>>, {}, IF asker = c THEN NoClient ELSE asker)
    /\ UNCHANGED <<connVars, upVars, gic, storeVars, syncVars, ghostVars>>

\* ws.on('close')
ClientClose(c) ==
    /\ c \in wsOpen
    /\ wsOpen' = wsOpen \ {c}
    /\ clientSocket' = NoClient
    /\ clientIsWaitingForChats' = FALSE
    /\ ObsAsk("ws_close", c, <<>>, {}, IF asker = c THEN NoClient ELSE asker)
    /\ UNCHANGED <<connVars, upVars, initialChatsPayload, gic, storeVars, syncVars,
                   ghostVars>>


\* if (initialChatsPayload)
HasSnapshot_Never(payload) == FALSE
HasSnapshot(payload) == payload.set

\* handleGetInitialChats() on the command of client c, up to
\* await database.getChats()
GetInitialChatsCall(c) ==
    /\ c \in wsOpen
    /\ gic.pc = "none"
    /\ IF HasSnapshot(initialChatsPayload)
       THEN /\ Obs("get_initial_chats", c,
                   <<sendToFrontend("initial_chats", initialChatsPayload)>>, {})
            /\ UNCHANGED gic
       ELSE /\ gic' = [pc |-> "await", chats |-> {r.jid : r \in chats}]
            /\ ObsAsk("get_initial_chats", c, <<>>, {},
                      IF chats = {} THEN c ELSE asker)
    /\ UNCHANGED <<connVars, upVars, clientSocket, wsOpen, clientIsWaitingForChats,
                   initialChatsPayload, storeVars, syncVars, ghostVars>>

\* handleGetInitialChats(), from the result of getChats() on
GetInitialChatsResume ==
    /\ gic.pc = "await"
    /\ gic' = [pc |-> "none", chats |-> {}]
    /\ IF gic.chats # {}
       THEN /\ Obs("get_initial_chats_db", Null,
                   <<sendToFrontend("initial_chats", Payload(gic.chats))>>, {})
            /\ UNCHANGED clientIsWaitingForChats
       ELSE /\ clientIsWaitingForChats' = TRUE
            /\ Obs("get_initial_chats_db", Null, <<>>, {})
    /\ UNCHANGED <<connVars, upVars, clientSocket, wsOpen, initialChatsPayload,
                   storeVars, syncVars, ghostVars>>

\* ------------------------------------------------------------------------
\* Relay Protocol Server: the inbound frames, ws.on('message')
\* ------------------------------------------------------------------------
\* what errorHandler.websocket / .messaging / .database return
ErrorResponse(type) == [type |-> type, message |-> "message", details |-> "details"]

\* the catch block of ws.on('message')
MessageProcessingError == sendToFrontend("error", ErrorResponse("websocket_error"))

\* a frame that JSON.parse rejects, or that parses to a value without
\* properties (null): the try block throws before the dispatch
FrameMalformed(c) ==
    /\ c \in wsOpen
    /\ Obs("frame_malformed", c, <<MessageProcessingError>>, {})
    /\ UNCHANGED <<connVars, upVars, relayVars, storeVars, syncVars, ghostVars>>

\* handleFrontendCommand: the default branch of the switch
CommandUnknown_Ignored(c) ==
    /\ c \in wsOpen
    /\ Obs("command_unknown", c, <<>>, {})
    /\ UNCHANGED <<connVars, upVars, relayVars, storeVars, syncVars, ghostVars>>

CommandUnknown(c) ==
    /\ c \in wsOpen
    /\ Obs("command_unknown", c,
           <<sendToFrontend("error", [type |-> "unknown_command",
                                      message |-> "Unknown command"])>>, {})
    /\ UNCHANGED <<connVars, upVars, relayVars, storeVars, syncVars, ghostVars>>

\* ------------------------------------------------------------------------
\* Message payloads
\* ------------------------------------------------------------------------
\* getDisplayMessage(msg); "" is the empty string
getDisplayMessage(shape) ==
    CASE shape = "none" -> ""
      [] shape = "conversation" -> "text"
      [] shape = "extendedTextMessage" -> "text"
      [] shape = "imageMessage" -> "[Image]"
      [] shape = "videoMessage" -> "[Video]"
      [] OTHER -> "[Unsupported Message]"

\* getMessageType(msg)
getMessageType(shape) ==
    CASE shape = "none" -> "text"
      [] shape = "conversation" -> "text"
      [] shape = "extendedTextMessage" -> "text"
      [] shape = "imageMessage" -> "image"
      [] shape = "videoMessage" -> "video"
      [] shape = "audioMessage" -> "audio"
      [] OTHER -> "unknown"

\* ------------------------------------------------------------------------
\* Upstream data
\* ------------------------------------------------------------------------
RECURSIVE NewestFirst(_)
NewestFirst(ms) ==
    IF ms = {} THEN <<>>
    ELSE LET top == CHOOSE m \in ms : \A d \in ms : d.ts <= m.ts
         IN <<top>> \o NewestFirst(ms \ {top})

\* what sock.fetchMessageHistory(jid, count) and the history snapshot hold
RemoteHistory(jid) == NewestFirst({m \in remote : m.jid = jid})

FetchCall(jid, count) == [op |-> "fetchMessageHistory", arg |-> jid, n |-> count]

\* ------------------------------------------------------------------------
\* Sync Engine: handlers of the upstream events
\* ------------------------------------------------------------------------
\* handleHistorySet: the messages of one chat, chat.messages.slice(0, 10)
RECURSIVE HistoryMessages(_, _, _, _)
HistoryMessages(db, jid, ms, t) ==
    IF ms = <<>> THEN db
    ELSE LET msg == Head(ms)
             content == getDisplayMessage(msg.shape)
             next == IF content # ""
                     THEN SaveMessage(db, msg.id, jid, msg.fromMe, content,
                                      msg.ts * 1000, "text", "received", t)
                     ELSE db
         IN HistoryMessages(next, jid, Tail(ms), t)

FirstN(q, n) == IF Len(q) <= n THEN q ELSE SubSeq(q, 1, n)

\* handleHistorySet: one chat of item.chats, whose chat.messages are the n
\* newest messages of the chat
HistoryChat(db, jid, n, t) ==
    LET ms == FirstN(RemoteHistory(jid), n)
        name == IF UpName(jid) # Null THEN UpName(jid) ELSE jid
        saved == SaveChat(db, jid, name,
                          IF ms # <<>> THEN ms[1].id ELSE Null,
                          IF ms # <<>> THEN ms[1].ts * 1000 ELSE t, t)
    IN HistoryMessages(saved, jid, FirstN(ms, HISTORY_SET_MESSAGES), t)

RECURSIVE HistoryChats(_, _, _, _)
HistoryChats(db, js, n, t) ==
    IF js = {} THEN db
    ELSE LET j == CHOOSE x \in js : TRUE
         IN HistoryChats(HistoryChat(db, j, n, t), js \ {j}, n, t)

\* the end of handleHistorySet, loadInitialChats and tryFetchChatsFromStore:
\* if (clientIsWaitingForChats) { sendToFrontend('initial_chats', ...) }
SnapshotEvents(payload) ==
    IF clientIsWaitingForChats
    THEN <<sendToFrontend("initial_chats", payload)>>
    ELSE <<>>

\* handleHistorySet(item), item.chats = the chats js, each with its n newest
\* messages
HistorySet(js, n) ==
    /\ session = "open"
    /\ LET db == HistoryChats(Db, js, n, now)
       IN /\ chats' = db.chats
          /\ messages' = db.messages
    /\ LET named == {j \in js : UpName(j) # Null /\ UpName(j) # j}
       IN contacts' = {r \in contacts : r.jid \notin named}
                          \cup {ContactRow(j, UpName(j)) : j \in named}
    /\ initialChatsPayload' = Payload(js)
    /\ clientIsWaitingForChats' = FALSE
    /\ Obs("history_set", Null, SnapshotEvents(Payload(js)), {})
    /\ UNCHANGED <<connVars, upVars, clientSocket, wsOpen, gic, settings, upsert, syncVars,
                   ghostVars>>

\* handleMessagesUpsert(m), msg = m.messages[0]
MessagesUpsert(msg, notify) ==
    /\ session = "open"
    /\ remote' = remote \cup {msg}
    /\ LET content == getDisplayMessage(msg.shape)
           handled == ~msg.fromMe /\ notify /\ content # ""
           saved == handled /\ SaveMessageOk(Db, msg.jid)
           db == SaveMessage(Db, msg.id, msg.jid, FALSE, content, msg.ts * 1000,
                             "text", "received", now)
       IN /\ chats' = IF saved THEN db.chats ELSE chats
          /\ messages' = IF saved THEN db.messages ELSE messages
          /\ Obs("messages_upsert", msg.id,
                 IF saved THEN <<Send("newMessage")>> ELSE <<>>, {})
    /\ UNCHANGED <<connVars, authInfo, session, sessionAuth, qrShown, relayVars,
                   settings, upsert, contacts, syncVars, ghostVars>>

\* ------------------------------------------------------------------------
\* Service Supervisor: the health checks
\* ------------------------------------------------------------------------
\* the health checks in the order of their registration (addHealthCheck)
HealthNames == <<"check1", "check2", "errorCheck", "asyncCheck">>

\* what a check does when it is run; "absent": the name is not registered
Behaviours == {"absent", "healthy", "unhealthy", "throws"}
Runs == [{HealthNames[i] : i \in DOMAIN HealthNames} -> Behaviours]

NoChecks == [healthy |-> TRUE, checks |-> <<>>]

\* the entry of one check: what it returned, or healthy false with the
\* message of what it threw
CheckEntry(behaviour) ==
    [healthy |-> behaviour = "healthy",
     error |-> IF behaviour = "throws" THEN "Health check failed" ELSE Null]

\* a loop that lets the exception of a check out: the checks after it do not
\* run and the result so far is what the caller sees
RECURSIVE RunChecks_StopsAtThrow(_, _, _)
RunChecks_StopsAtThrow(names, run, acc) ==
    IF names = <<>> THEN acc
    ELSE LET n == Head(names)
         IN IF run[n] = "absent" THEN RunChecks_StopsAtThrow(Tail(names), run, acc)
            ELSE IF run[n] = "throws" THEN [acc EXCEPT !.healthy = FALSE]
            ELSE RunChecks_StopsAtThrow(Tail(names), run,
                     [healthy |-> acc.healthy /\ CheckEntry(run[n]).healthy,
                      checks |-> acc.checks @@ (n :> CheckEntry(run[n]))])

\* runHealthChecks(): the loop over the registered checks, each in its own
\* try/catch
RECURSIVE RunChecks(_, _, _)
RunChecks(names, run, acc) ==
    IF names = <<>> THEN acc
    ELSE LET n == Head(names)
         IN IF run[n] = "absent" THEN RunChecks(Tail(names), run, acc)
            ELSE RunChecks(Tail(names), run,
                     [healthy |-> acc.healthy /\ CheckEntry(run[n]).healthy,
                      checks |-> acc.checks @@ (n :> CheckEntry(run[n]))])

runHealthChecks(run) == RunChecks(HealthNames, run, NoChecks)

\* handleHealthCheck() on the health_check command of client c; run: what
\* each registered check does this time
HealthCheckCommand(c, run) ==
    /\ c \in wsOpen
    /\ LET health == runHealthChecks(run)
       IN Obs("health_check", run,
              <<sendToFrontend("health_status",
                    [healthy |-> health.healthy, checks |-> health.checks,
                     baileys |-> [status |-> baileysConnectionStatus,
                                  connected |-> baileysConnectionStatus = "open"]])>>, {})
    /\ UNCHANGED <<connVars, upVars, relayVars, storeVars, syncVars, ghostVars>>

\* ------------------------------------------------------------------------
\* Relay Protocol Server: the commands that reach the upstream and the store
\* ------------------------------------------------------------------------
HISTORY_PAGE == 50            \* handleGetMessageHistory: limit = 50

\* handleSendMessage(data) on a send_message frame of client c.
\* data: "undefined" (the frame has no data, the destructuring throws and the
\* catch block of ws.on('message') answers), "incomplete" (no message field),
\* "complete"; sendFails: sock.sendMessage rejects.
\* The message the upstream accepted has the id "sent"; the row written for a
\* failed send has the id "failed" (failed_<Date.now()>).
SendMessageCommand(c, data, to, sendFails) ==
    /\ c \in wsOpen
    /\ sendFails => data = "complete" /\ Connected
    /\ LET reaches == data = "complete" /\ Connected
           failed == data = "incomplete" \/ ~Connected \/ sendFails
                     \/ ~SaveMessageOk(Db, to)
           kept == SaveMessage(Db, "failed", to, TRUE,
                               IF data = "complete" THEN "text" ELSE Null,
                               now, "text", "failed", now)
           saved == SaveChat(SaveMessage(Db, "sent", to, TRUE, "text", now, "text",
                                         "sent", now),
                             to, Null, "sent", now, now)
           db == IF data = "undefined" THEN Db ELSE IF failed THEN kept ELSE saved
           upstreamCalls == IF reaches
                            THEN {[op |-> "sendMessage", arg |-> to, n |-> 1]} ELSE {}
       IN /\ chats' = db.chats
          /\ messages' = db.messages
          /\ remote' = IF reaches /\ ~sendFails
                       THEN remote \cup {UpMsg("sent", to, TRUE, now \div 1000,
                                               "conversation")}
                       ELSE remote
          /\ IF data = "undefined"
             THEN Obs("send_message_threw", c, <<MessageProcessingError>>, {})
             ELSE IF failed
             THEN Obs("send_message_failed", c,
                      <<sendToFrontend("message_error", ErrorResponse("messaging_error"))>>,
                      upstreamCalls)
             ELSE Obs("send_message_done", c, <<Send("message_sent")>>, upstreamCalls)
    /\ UNCHANGED <<connVars, authInfo, session, sessionAuth, qrShown, relayVars,
                   settings, upsert, contacts, syncVars, ghostVars>>

\* handleGetMessageHistory: the messages fetched for a chat without stored
\* messages are saved without an existence check
RECURSIVE SaveFetched(_, _, _, _)
SaveFetched(db, jid, ms, t) ==
    IF ms = <<>> THEN db
    ELSE LET msg == Head(ms)
             content == getDisplayMessage(msg.shape)
             type == getMessageType(msg.shape)
         IN IF content # "" \/ type # "text"
            THEN SaveFetched(SaveMessage(db, msg.id, jid, msg.fromMe, content,
                                         msg.ts * 1000, type, "received", t),
                             jid, Tail(ms), t)
            ELSE SaveFetched(db, jid, Tail(ms), t)

\* handleGetMessageHistory(data) on a get_message_history frame of client c.
\* data: "undefined" or "complete"; dbFails: getMessagesWithSender rejects.
GetMessageHistoryCommand(c, data, jid, dbFails) ==
    /\ c \in wsOpen
    /\ dbFails => data = "complete"
    /\ LET fetches == /\ data = "complete" /\ ~dbFails /\ Connected
                      /\ GetMessagesAt(Db, jid, HISTORY_PAGE, 0) = <<>>
           db == IF fetches
                 THEN SaveFetched(Db, jid, FirstN(RemoteHistory(jid), HISTORY_PAGE), now)
                 ELSE Db
       IN /\ chats' = db.chats
          /\ messages' = db.messages
          /\ IF data = "undefined"
             THEN Obs("get_message_history_threw", c, <<MessageProcessingError>>, {})
             ELSE IF dbFails
             THEN Obs("get_message_history_failed", c,
                      <<sendToFrontend("message_history_error",
                                       ErrorResponse("messaging_error"))>>, {})
             ELSE Obs("get_message_history_done", c, <<Send("message_history")>>,
                      IF fetches THEN {FetchCall(jid, HISTORY_PAGE)} ELSE {})
    /\ UNCHANGED <<connVars, upVars, relayVars, settings, upsert, contacts, syncVars, ghostVars>>

\* ------------------------------------------------------------------------
\* Sync Engine: the open branch of handleConnectionUpdate after
\* await isFirstTimeLogin()
\* ------------------------------------------------------------------------
MAX_WAIT_MS == 30000          \* waitForInitialHistory: maxWaitTime
CHECK_INTERVAL_MS == 1000     \* waitForInitialHistory: checkInterval
SYNC_WINDOW == 20             \* syncChatMessages: fetchMessageHistory(jid, 20)
PROGRESS_EVERY_DOWNLOAD == 5  \* performComprehensiveDataDownload: processedChats % 5
PROGRESS_EVERY_SYNC == 10     \* performComprehensiveSync: processedChats % 10
ALL_CHATS == 1000             \* getChats(1000)
DEFAULT_CHATS == 50           \* getChats(limit = 50)

JidsOf(rows) == [i \in 1..Len(rows) |-> rows[i].jid]
SeqToSet(q) == {q[i] : i \in 1..Len(q)}

SetPass(p, r) == pass' = [pass EXCEPT ![p] = r]

\* isFirstTimeLogin(): no chat row
IsFirstTimeLogin(db) == Len(GetChats(db, 1)) = 0

\* resumes handleConnectionUpdate after isFirstTimeLogin().  First login:
\* tryFetchChatsFromStore() finds no chats in the socket store,
\* performComprehensiveDataDownload() starts and waitForInitialHistory()
\* begins to poll.  Otherwise loadInitialChats() is called.
PassIsFirstLogin(p) ==
    /\ pass[p].pc = "isFirstLogin"
    /\ IF IsFirstTimeLogin(Db)
       THEN /\ SetPass(p, [pass[p] EXCEPT !.pc = "poll", !.waitTime = 0])
            /\ Obs("first_login", Null,
                   <<Send("initial_download_started"), Send("download_progress")>>, {})
       ELSE /\ SetPass(p, [pass[p] EXCEPT !.pc = "loadInitial"])
            /\ Obs("not_first_login", Null, <<>>, {})
    /\ UNCHANGED <<connVars, upVars, relayVars, storeVars, now, ghostVars>>

\* the same resumption when getChats(1) of isFirstTimeLogin() rejects: the
\* catch of isFirstTimeLogin returns false and loadInitialChats() is called
PassIsFirstLoginFails(p) ==
    /\ pass[p].pc = "isFirstLogin"
    /\ SetPass(p, [pass[p] EXCEPT !.pc = "loadInitial"])
    /\ Obs("first_login_error", Null, <<>>, {})
    /\ UNCHANGED <<connVars, upVars, relayVars, storeVars, now, ghostVars>>

\* the chats that sock.store may hold when it is read
StoreChats == (SUBSET Jids) \ {{}}

\* the same resumption on a first login when the connection is open and
\* sock.store holds the chats js.  tryFetchChatsFromStore() saves them and
\* sets the payload; performComprehensiveDataDownload() starts and
\* waitForInitialHistory() finds them again, saves them, calls
\* handleHistorySet and returns from the executor of its promise ("Exit early
\* since we found chats") without a call of resolve: the await of
\* performComprehensiveDataDownload has nothing left that settles it.
PassFetchFromStore(p, js) ==
    /\ pass[p].pc = "isFirstLogin"
    /\ IsFirstTimeLogin(Db)
    /\ sock /\ baileysConnectionStatus = "open"
    /\ LET db == HistoryChats(Db, js, 0, now)
           named == {j \in js : UpName(j) # Null /\ UpName(j) # j}
       IN /\ chats' = db.chats
          /\ messages' = db.messages
          /\ contacts' = {r \in contacts : r.jid \notin named}
                              \cup {ContactRow(j, UpName(j)) : j \in named}
    /\ initialChatsPayload' = Payload(js)
    /\ clientIsWaitingForChats' = FALSE
    /\ SetPass(p, [pass[p] EXCEPT !.pc = "awaitHistory", !.waitTime = 0])
    /\ Obs("first_login_store", js,
           <<Send("initial_download_started")>> \o SnapshotEvents(Payload(js))
               \o <<Send("download_progress")>>, {})
    /\ UNCHANGED <<connVars, upVars, clientSocket, wsOpen, gic, settings, upsert, now,
                   ghostVars>>

\* waitForInitialHistory(): checkForHistory(); waitTime is a local of
\* waitForInitialHistory and is gone when the promise resolves
PassPoll(p) ==
    /\ pass[p].pc = "poll"
    /\ IF Len(GetChats(Db, 1)) > 0
       THEN SetPass(p, [pass[p] EXCEPT !.pc = "dlStart", !.waitTime = 0])
       ELSE IF pass[p].waitTime + CHECK_INTERVAL_MS >= MAX_WAIT_MS
            THEN SetPass(p, [pass[p] EXCEPT !.pc = "dlStart", !.waitTime = 0])
            ELSE SetPass(p, [pass[p] EXCEPT !.waitTime = @ + CHECK_INTERVAL_MS])
    /\ Obs("check_for_history", Null, <<>>, {})
    /\ UNCHANGED <<connVars, upVars, relayVars, storeVars, now, ghostVars>>

\* performComprehensiveDataDownload() from getChats(1000) to the first chat
PassDlStart(p) ==
    /\ pass[p].pc = "dlStart"
    /\ LET list == JidsOf(GetChats(Db, ALL_CHATS))
       IN IF list = <<>>
          THEN /\ SetPass(p, IdlePass)
               /\ Obs("download_none", Null, <<Send("download_complete")>>, {})
          ELSE /\ SetPass(p, [pass[p] EXCEPT !.pc = "dlHistory", !.list = list,
                                             !.idx = 1, !.remaining = HISTORY_LIMIT])
               /\ Obs("download_start", Null, <<Send("download_progress")>>, {})
    /\ UNCHANGED <<connVars, upVars, relayVars, storeVars, now, ghostVars>>

\* downloadMessageHistory: one message of a batch.  The dedup check comes
\* first; a message without text and of type text is not stored.
MediaTypes == {"image", "video", "audio", "document", "sticker"}

DownloadStores_NoDedup(db, msg) ==
    getDisplayMessage(msg.shape) # "" \/ getMessageType(msg.shape) # "text"

DownloadStores(db, msg) ==
    /\ GetMessage(db, msg.id) = {}
    /\ getDisplayMessage(msg.shape) # "" \/ getMessageType(msg.shape) # "text"

DownloadMessage(db, jid, msg, t) ==
    IF DownloadStores(db, msg)
    THEN SaveMessage(db, msg.id, jid, msg.fromMe, getDisplayMessage(msg.shape),
                     msg.ts * 1000, getMessageType(msg.shape), "received", t)
    ELSE db

RECURSIVE DownloadBatch(_, _, _, _)
DownloadBatch(db, jid, ms, t) ==
    IF ms = <<>> THEN db
    ELSE IF ~DownloadStores(db, Head(ms))
    THEN DownloadBatch(db, jid, Tail(ms), t)                      \* continue
    ELSE DownloadBatch(DownloadMessage(db, jid, Head(ms), t), jid, Tail(ms), t)

\* the media downloads of a batch: downloadMessageMedia of each stored message
\* that is not text, while connected
RECURSIVE BatchMediaCalls(_, _, _, _)
BatchMediaCalls(db, jid, ms, t) ==
    IF ms = <<>> THEN {}
    ELSE LET msg == Head(ms)
             media == /\ DownloadStores(db, msg)
                      /\ SaveMessageOk(db, jid)
                      /\ getMessageType(msg.shape) \in MediaTypes
                      /\ Connected
         IN (IF media THEN {[op |-> "downloadMediaMessage", arg |-> msg.id, n |-> 1]}
             ELSE {})
            \cup BatchMediaCalls(DownloadMessage(db, jid, msg, t), jid, Tail(ms), t)

Min_Larger(a, b) == IF a <= b THEN b ELSE a
\* Math.min(batchSize, remainingLimit)
Min(a, b) == IF a <= b THEN a ELSE b

\* batchSavedCount: the messages of the batch that saveMessage stored
RECURSIVE DownloadCount(_, _, _, _)
DownloadCount(db, jid, ms, t) ==
    IF ms = <<>> THEN 0
    ELSE (IF DownloadStores(db, Head(ms)) /\ SaveMessageOk(db, jid) THEN 1 ELSE 0)
         + DownloadCount(DownloadMessage(db, jid, Head(ms), t), jid, Tail(ms), t)

\* what a turn of the batch loop adds to the account of the loop
Fetched(p, ms, saved) ==
    dl' = [dl EXCEPT ![p] = [fetches |-> @.fetches + 1,
                             stored |-> @.stored + saved,
                             dry |-> @.dry \/ (ms # <<>> /\ \A i \in DOMAIN ms :
                                                   GetMessage(Db, ms[i].id) # {})]]

\* downloadMessageHistory(jid, 500): one turn of the batch loop, from the
\* fetch of currentBatchSize messages to the delay that ends the turn.
\* fails: the fetch throws.
PassDlHistory(p, fails) ==
    /\ pass[p].pc = "dlHistory"
    /\ LET r == pass[p]
           jid == r.list[r.idx]
           size == Min(BATCH_SIZE, r.remaining)
           ms == FirstN(RemoteHistory(jid), size)
           db == DownloadBatch(Db, jid, ms, now)
           left == r.remaining - size
       IN IF r.remaining = HISTORY_LIMIT /\ ~Connected
          THEN \* if (!sock || baileysConnectionStatus !== 'open') return 0
               /\ ~fails
               /\ SetPass(p, [r EXCEPT !.pc = "dlContact"])
               /\ Obs("download_history", jid, <<>>, {})
               /\ UNCHANGED <<storeVars, dl>>
          ELSE IF fails \/ ms = <<>>
          THEN \* catch (batchError) { break }, messages.length === 0: break
               /\ SetPass(p, [r EXCEPT !.pc = "dlContact"])
               /\ Obs("download_history", jid, <<>>, {FetchCall(jid, size)})
               /\ Fetched(p, <<>>, 0)
               /\ UNCHANGED storeVars
          ELSE /\ chats' = db.chats
               /\ messages' = db.messages
               /\ UNCHANGED <<settings, upsert, contacts>>
               /\ Obs(IF db.messages # messages THEN "download_stored"
                      ELSE "download_history", jid, <<>>,
                      {FetchCall(jid, size)} \cup BatchMediaCalls(Db, jid, ms, now))
               /\ Fetched(p, ms, DownloadCount(Db, jid, ms, now))
               /\ IF Len(ms) = size /\ left > 0
                  THEN SetPass(p, [r EXCEPT !.remaining = left])
                  ELSE SetPass(p, [r EXCEPT !.pc = "dlContact", !.remaining = left])
    /\ UNCHANGED <<connVars, upVars, relayVars, now, failStreak, terminalFailure,
                   lastChecked, dueCause>>

\* downloadContactInfo(jid), the progress event and the step to the next chat
PassDlContact(p) ==
    /\ pass[p].pc = "dlContact"
    /\ LET r == pass[p]
           jid == r.list[r.idx]
           progress == r.idx % PROGRESS_EVERY_DOWNLOAD = 0 \/ r.idx = Len(r.list)
       IN /\ Obs("download_contact", jid,
                 IF progress THEN <<Send("download_progress")>> ELSE <<>>,
                 IF Connected
                 THEN {[op |-> "profilePictureUrl", arg |-> jid, n |-> 1]} ELSE {})
          /\ IF r.idx < Len(r.list)
             THEN SetPass(p, [r EXCEPT !.pc = "dlHistory", !.idx = @ + 1,
                                       !.remaining = HISTORY_LIMIT])
             ELSE SetPass(p, [r EXCEPT !.pc = "dlFinish"])
    /\ dl' = [dl EXCEPT ![p] = NoLoop]
    /\ UNCHANGED <<connVars, upVars, relayVars, storeVars, now, failStreak,
                   terminalFailure, lastChecked, dueCause>>

\* the end of performComprehensiveDataDownload()
PassDlFinish(p) ==
    /\ pass[p].pc = "dlFinish"
    /\ settings' = SetSetting(settings, "first_login_complete", TRUE)
    /\ SetPass(p, IdlePass)
    /\ Obs("download_finish", Null,
           <<Send("download_progress"), Send("download_complete")>>, {})
    /\ UNCHANGED <<connVars, upVars, relayVars, chats, messages, upsert, contacts, now,
                   ghostVars>>


\* loadInitialChats(): the snapshot is rebuilt from the chat rows, if any
LoadInitialChats(next, p, op) ==
    LET list == JidsOf(GetChats(Db, DEFAULT_CHATS))
    IN /\ IF list # <<>>
          THEN /\ initialChatsPayload' = Payload(SeqToSet(list))
               /\ clientIsWaitingForChats' = FALSE
               /\ Obs(op, Null, SnapshotEvents(Payload(SeqToSet(list))) \o next, {})
          ELSE /\ UNCHANGED <<initialChatsPayload, clientIsWaitingForChats>>
               /\ Obs(op, Null, next, {})
       /\ UNCHANGED <<connVars, upVars, clientSocket, wsOpen, gic, storeVars, now,
                      ghostVars>>

\* loadInitialChats() of handleConnectionUpdate, syncExistingChats(), and
\* performIncrementalSync() up to its own loadInitialChats()
PassLoadInitial(p) ==
    /\ pass[p].pc = "loadInitial"
    /\ SetPass(p, [pass[p] EXCEPT !.pc = "loadInitial2"])
    /\ LoadInitialChats(<<Send("sync_started")>>, p, "load_initial_chats")

\* loadInitialChats() of performIncrementalSync(), then
\* performComprehensiveSync() up to await getSetting('last_sync_timestamp')
PassLoadInitial2(p) ==
    /\ pass[p].pc = "loadInitial2"
    /\ IF Connected
       THEN /\ SetPass(p, [pass[p] EXCEPT !.pc = "syncStart"])
            /\ LoadInitialChats(<<Send("sync_progress")>>, p, "incremental_sync")
       ELSE \* performComprehensiveSync() returns; performIncrementalSync() ends
            /\ SetPass(p, IdlePass)
            /\ LoadInitialChats(<<Send("sync_complete")>>, p, "incremental_sync")

\* performComprehensiveSync() from getSetting to the first chat
PassSyncStart(p) ==
    /\ pass[p].pc = "syncStart"
    /\ LET list == JidsOf(GetChats(Db, ALL_CHATS))
       IN IF list = <<>>
          THEN /\ SetPass(p, IdlePass)
               /\ Obs("sync_none", Null, <<Send("sync_complete")>>, {})
          ELSE /\ SetPass(p, [pass[p] EXCEPT
                                !.pc = "syncChat", !.list = list, !.idx = 1,
                                !.lastSyncTime = GetSetting("last_sync_timestamp", 0),
                                !.currentTime = now, !.newMessages = 0,
                                !.updated = FALSE])
               /\ Obs("sync_start", Null, <<Send("sync_progress")>>, {})
    /\ UNCHANGED <<connVars, upVars, relayVars, storeVars, now, ghostVars>>

\* syncChatMessages: the time the rate limit is measured from,
\* recentMessages.length > 0 ? recentMessages[0].timestamp : lastSyncTime
LastMessageTime(db, jid, lastSyncTime) ==
    LET recent == GetMessages(db, jid, 1)
    IN IF Len(recent) > 0 THEN recent[1].timestamp ELSE lastSyncTime

\* if (timeSinceLastCheck < 60000) return 0
RateLimited(db, jid, lastSyncTime) ==
    now - LastMessageTime(db, jid, lastSyncTime) < RATE_LIMIT_MS

\* the test of the fetched message without if (messageTime <= lastMessageTime)
SyncStores_NoMark(db, msg, lastMessageTime) ==
    /\ getDisplayMessage(msg.shape) # ""
    /\ GetMessage(db, msg.id) = {}

\* syncChatMessages: one fetched message
SyncStores(db, msg, lastMessageTime) ==
    /\ msg.ts * 1000 > lastMessageTime
    /\ getDisplayMessage(msg.shape) # ""
    /\ GetMessage(db, msg.id) = {}

SyncMessage(db, jid, msg, lastMessageTime, t) ==
    IF SyncStores(db, msg, lastMessageTime)
    THEN SaveMessage(db, msg.id, jid, msg.fromMe, getDisplayMessage(msg.shape),
                     msg.ts * 1000, "text", "received", t)
    ELSE db

RECURSIVE SyncBatch(_, _, _, _, _)
SyncBatch(db, jid, ms, lastMessageTime, t) ==
    IF ms = <<>> THEN db
    ELSE SyncBatch(SyncMessage(db, jid, Head(ms), lastMessageTime, t), jid, Tail(ms),
                   lastMessageTime, t)

\* newMessageCount
RECURSIVE SyncCount(_, _, _, _, _)
SyncCount(db, jid, ms, lastMessageTime, t) ==
    IF ms = <<>> THEN 0
    ELSE (IF SyncStores(db, Head(ms), lastMessageTime) /\ SaveMessageOk(db, jid)
          THEN 1 ELSE 0)
         + SyncCount(SyncMessage(db, jid, Head(ms), lastMessageTime, t), jid, Tail(ms),
                     lastMessageTime, t)

\* a loop whose catch ends the pass with sync_error when the fetch throws
PassSyncChat_AbortOnFail(p, fails) ==
    /\ pass[p].pc = "syncChat"
    /\ LET r == pass[p]
           jid == r.list[r.idx]
           last == LastMessageTime(Db, jid, r.lastSyncTime)
           fetches == Connected /\ ~RateLimited(Db, jid, r.lastSyncTime)
           ms == FirstN(RemoteHistory(jid), SYNC_WINDOW)
           db == SyncBatch(Db, jid, ms, last, now)
           count == IF fetches THEN SyncCount(Db, jid, ms, last, now) ELSE 0
           progress == r.idx % PROGRESS_EVERY_SYNC = 0 \/ r.idx = Len(r.list)
       IN /\ fails => fetches
          /\ chats' = IF fetches /\ ~fails THEN db.chats ELSE chats
          /\ messages' = IF fetches /\ ~fails THEN db.messages ELSE messages
          /\ UNCHANGED <<settings, upsert, contacts>>
          /\ Obs("sync_chat", jid,
                 IF fails THEN <<Send("sync_error")>>
                 ELSE IF progress THEN <<Send("sync_progress")>> ELSE <<>>,
                 IF fetches THEN {FetchCall(jid, SYNC_WINDOW)} ELSE {})
          /\ lastChecked' = IF fetches THEN [lastChecked EXCEPT ![jid] = now]
                            ELSE lastChecked
          /\ SetPass(p, IF fails THEN IdlePass
                        ELSE [r EXCEPT
                           !.pc = IF r.idx < Len(r.list) THEN "syncChat" ELSE "syncFinish",
                           !.idx = IF r.idx < Len(r.list) THEN @ + 1 ELSE @,
                           !.newMessages = @ + count,
                           !.updated = @ \/ count > 0])
    /\ UNCHANGED <<connVars, upVars, relayVars, now, failStreak, terminalFailure,
                   dueCause, dl>>

\* performComprehensiveSync(): one chat of the loop, syncChatMessages(jid,
\* lastSyncTime), syncContactData(jid) and the progress event.
\* fails: fetchMessageHistory throws.
PassSyncChat(p, fails) ==
    /\ pass[p].pc = "syncChat"
    /\ LET r == pass[p]
           jid == r.list[r.idx]
           last == LastMessageTime(Db, jid, r.lastSyncTime)
           fetches == Connected /\ ~RateLimited(Db, jid, r.lastSyncTime)
           ms == FirstN(RemoteHistory(jid), SYNC_WINDOW)
           stores == fetches /\ ~fails
           db == SyncBatch(Db, jid, ms, last, now)
           count == IF stores THEN SyncCount(Db, jid, ms, last, now) ELSE 0
           progress == r.idx % PROGRESS_EVERY_SYNC = 0 \/ r.idx = Len(r.list)
       IN /\ fails => fetches
          /\ chats' = IF stores THEN db.chats ELSE chats
          /\ messages' = IF stores THEN db.messages ELSE messages
          /\ UNCHANGED <<settings, upsert, contacts>>
          /\ Obs("sync_chat", jid,
                 IF progress THEN <<Send("sync_progress")>> ELSE <<>>,
                 IF fetches THEN {FetchCall(jid, SYNC_WINDOW)} ELSE {})
          /\ lastChecked' = IF fetches THEN [lastChecked EXCEPT ![jid] = now]
                            ELSE lastChecked
          /\ SetPass(p, [r EXCEPT
                           !.pc = IF r.idx < Len(r.list) THEN "syncChat" ELSE "syncFinish",
                           !.idx = IF r.idx < Len(r.list) THEN @ + 1 ELSE @,
                           !.newMessages = @ + count,
                           !.updated = @ \/ count > 0])
    /\ UNCHANGED <<connVars, upVars, relayVars, now, failStreak, terminalFailure,
                   dueCause, dl>>

\* an end of the pass that does not write last_sync_timestamp
PassSyncFinish_NoTimestamp(p) ==
    /\ pass[p].pc = "syncFinish"
    /\ UNCHANGED settings
    /\ SetPass(p, IdlePass)
    /\ IF pass[p].updated \/ pass[p].newMessages > 0
       THEN LET snapshot == Payload(SeqToSet(JidsOf(GetChats(Db, DEFAULT_CHATS))))
            IN /\ initialChatsPayload' = snapshot
               /\ Obs("sync_finish", Null,
                      <<Send("sync_progress"), sendToFrontend("chats_updated", snapshot),
                        Send("sync_complete")>>, {})
       ELSE /\ UNCHANGED initialChatsPayload
            /\ Obs("sync_finish", Null,
                   <<Send("sync_progress"), Send("sync_complete")>>, {})
    /\ UNCHANGED <<connVars, upVars, clientSocket, wsOpen, clientIsWaitingForChats, gic,
                   chats, messages, upsert, contacts, now, ghostVars>>

\* the end of performComprehensiveSync() (setSetting, refreshChatList()) and
\* of performIncrementalSync()
PassSyncFinish(p) ==
    /\ pass[p].pc = "syncFinish"
    /\ settings' = SetSetting(settings, "last_sync_timestamp", pass[p].currentTime)
    /\ SetPass(p, IdlePass)
    /\ IF pass[p].updated \/ pass[p].newMessages > 0
       THEN LET snapshot == Payload(SeqToSet(JidsOf(GetChats(Db, DEFAULT_CHATS))))
            IN /\ initialChatsPayload' = snapshot
               /\ Obs("sync_finish", Null,
                      <<Send("sync_progress"), sendToFrontend("chats_updated", snapshot),
                        Send("sync_complete")>>, {})
       ELSE /\ UNCHANGED initialChatsPayload
            /\ Obs("sync_finish", Null,
                   <<Send("sync_progress"), Send("sync_complete")>>, {})
    /\ UNCHANGED <<connVars, upVars, clientSocket, wsOpen, clientIsWaitingForChats, gic,
                   chats, messages, upsert, contacts, now, ghostVars>>

\* time passes
Tick ==
    /\ now < StartMs + MaxTicks * TickMs
    /\ now' = now + TickMs
    /\ Obs("tick", Null, <<>>, {})
    /\ UNCHANGED <<connVars, upVars, relayVars, storeVars, pass, ghostVars>>


\* ------------------------------------------------------------------------
\* Local Store: calls of the Database methods by a client of the class
\* ------------------------------------------------------------------------
Statuses == {"sent", "delivered", "read"}
MsgOf(id) == CHOOSE m \in Msgs : m.id = id
TextIds == {m.id : m \in {x \in Msgs : x.shape = "conversation"}}

\* database.saveChat(jid, name, null, timestamp)
StoreSaveChat(jid) ==
    /\ LET db == SaveChat(Db, jid, UpName(jid), Null, now, now)
       IN /\ chats' = db.chats
          /\ messages' = db.messages
    /\ ObsCall("save_chat", jid, Resolved)
    /\ UNCHANGED <<connVars, upVars, relayVars, settings, upsert, contacts, syncVars, ghostVars>>

\* database.saveChat(jid, ...) whose this.run rejects (SQLITE_BUSY, ...)
StoreSaveChatFails(jid) ==
    /\ ObsCall("save_chat_error", jid, StorageError("saveChat"))
    /\ UNCHANGED <<connVars, upVars, relayVars, storeVars, syncVars, ghostVars>>

\* saveContact: INSERT OR REPLACE INTO contacts
SaveContact(rows, jid, name) == {c \in rows : c.jid # jid} \cup {ContactRow(jid, name)}

\* database.saveContact(jid, name); fails: this.run rejects
StoreSaveContact(jid, name, fails) ==
    /\ IF fails
       THEN /\ UNCHANGED contacts
            /\ ObsCall("save_contact_error", jid, StorageError("saveContact"))
       ELSE /\ contacts' = SaveContact(contacts, jid, name)
            /\ ObsCall("save_contact", jid, Resolved)
    /\ UNCHANGED <<connVars, upVars, relayVars, chats, messages, settings, upsert,
                   syncVars, ghostVars>>

\* a call that resolves although this.run rejected
StoreSetSetting_Swallows(key, value, fails) ==
    /\ IF fails
       THEN /\ UNCHANGED settings
            /\ ObsCall("set_setting", key, Resolved)
       ELSE /\ settings' = SetSetting(settings, key, value)
            /\ ObsCall("set_setting", key, Resolved)
    /\ UNCHANGED <<connVars, upVars, relayVars, chats, messages, upsert, contacts,
                   syncVars, ghostVars>>

\* database.setSetting(key, value); fails: this.run rejects
StoreSetSetting(key, value, fails) ==
    /\ IF fails
       THEN /\ UNCHANGED settings
            /\ ObsCall("set_setting_error", key, StorageError("setSetting"))
       ELSE /\ settings' = SetSetting(settings, key, value)
            /\ ObsCall("set_setting", key, Resolved)
    /\ UNCHANGED <<connVars, upVars, relayVars, chats, messages, upsert, contacts,
                   syncVars, ghostVars>>

\* database.saveMessage(id, chatJid, fromMe, content, timestamp, 'text', status)
StoreSaveMessage(id, chatJid, status) ==
    /\ LET msg == MsgOf(id)
           db == SaveMessage(Db, id, chatJid, msg.fromMe, getDisplayMessage(msg.shape),
                             msg.ts * 1000, "text", status, now)
       IN /\ chats' = db.chats
          /\ messages' = db.messages
    /\ ObsCall(IF ~SaveMessageOk(Db, chatJid) THEN "save_message_rejected"
               ELSE IF GetMessage(Db, id) = {} THEN "save_message_insert"
               ELSE IF \E m \in messages : m.id = id /\ m.status # status
                    THEN "save_message_restatus"
               ELSE "save_message_replace", id,
               IF SaveMessageOk(Db, chatJid) THEN Resolved
               ELSE StorageError("saveMessage"))
    /\ UNCHANGED <<connVars, upVars, relayVars, settings, upsert, contacts, syncVars, ghostVars>>

\* database.saveMessage(id, chatJid, ...) up to its second await: the INSERT
\* OR REPLACE INTO messages has run; it rejects when the chat has no row.
StoreInsertMessage(id, chatJid, status) ==
    /\ upsert.pc = "none"
    /\ LET msg == MsgOf(id)
           row == MessageRow(id, chatJid, msg.fromMe, getDisplayMessage(msg.shape),
                             msg.ts * 1000, "text", status)
       IN IF SaveMessageOk(Db, chatJid)
          THEN /\ messages' = InsertMessage(messages, row)
               /\ upsert' = [pc |-> "update", id |-> id, chatJid |-> chatJid]
               /\ ObsCall("save_message_inserted", id, NoOutcome)
          ELSE /\ UNCHANGED <<messages, upsert>>
               /\ ObsCall("save_message_rejected", id, StorageError("saveMessage"))
    /\ UNCHANGED <<connVars, upVars, relayVars, chats, settings, contacts, syncVars,
                   ghostVars>>

\* database.saveMessage resumes: the UPDATE chats of the last-message pointer.
\* fails: this.run rejects (SQLITE_BUSY, SQLITE_FULL, ...), saveMessage throws.
StoreUpdateLastMessage(fails) ==
    /\ upsert.pc = "update"
    /\ upsert' = NoUpsert
    /\ IF fails
       THEN /\ UNCHANGED chats
            /\ ObsCall("save_message_error", upsert.id, StorageError("saveMessage"))
       ELSE /\ chats' = UpdateLastMessage(chats, upsert.chatJid, upsert.id,
                                          MsgOf(upsert.id).ts * 1000, now)
            /\ ObsCall("save_message_saved", upsert.id, Resolved)
    /\ UNCHANGED <<connVars, upVars, relayVars, messages, settings, contacts, syncVars,
                   ghostVars>>

\* ------------------------------------------------------------------------
\* Specifications
\* ------------------------------------------------------------------------
NoSettings == [k \in {} |-> 0]

\* The Connection Manager with the relay client; the upstream account holds
\* no chats, so every pass is a first-sync that finds nothing.
Init ==
    /\ InitProgram
    /\ authInfo \in BOOLEAN
    /\ remote = {}
    /\ chats = {}
    /\ messages = {}
    /\ settings = NoSettings

Next ==
    \/ ConnectOk
    \/ ConnectFail
    \/ \E qrErr \in BOOLEAN : UpdateQr(qrErr)
    \/ UpdateConnecting
    \/ \E logout, rmFails \in BOOLEAN : UpdateClose(logout, rmFails)
    \/ UpdateOpen(1)
    \/ \E c \in Clients : ClientConnect(c)
    \/ \E c \in Clients : ClientClose(c)
    \/ \E p \in Passes : PassIsFirstLogin(p)
    \/ \E p \in Passes : PassPoll(p)
    \/ \E p \in Passes : PassDlStart(p)

Spec == Init /\ [][Next]_vars


\* what a completed first-sync of the account left in the database: the
\* rows handleHistorySet wrote for the chats of the upstream history
SyncedDb == HistoryChats(EmptyDb, {m.jid : m \in Msgs}, MaxSnapshot, StartMs - TickMs)

\* Incremental sync and the real-time handler: a paired account, the database
\* an earlier first-sync left, connects that succeed and closes without logout.
InitSync ==
    /\ InitProgram
    /\ authInfo = TRUE
    /\ remote = Msgs
    /\ chats = SyncedDb.chats
    /\ messages = SyncedDb.messages
    /\ settings = SetSetting(NoSettings, "first_login_complete", TRUE)

NextSync ==
    \/ ConnectOk
    \/ UpdateConnecting
    \/ UpdateClose(FALSE, FALSE)
    \/ UpdateOpen(1)
    \/ \E msg \in Msgs, notify \in BOOLEAN : MessagesUpsert(msg, notify)
    \/ \E p \in Passes : PassIsFirstLogin(p)
    \/ \E p \in Passes : PassLoadInitial(p)
    \/ \E p \in Passes : PassLoadInitial2(p)
    \/ \E p \in Passes : PassSyncStart(p)
    \/ \E p \in Passes, fails \in BOOLEAN : PassSyncChat(p, fails)
    \/ \E p \in Passes : PassSyncFinish(p)
    \/ Tick

SpecSync == InitSync /\ [][NextSync]_vars

\* First-sync: a paired account, an empty database, the upstream history of
\* all chats arriving while passes wait for it, chats of fewer than
\* BATCH_SIZE messages, and closes of sessions that had opened.
InitFirst ==
    /\ InitProgram
    /\ authInfo = TRUE
    /\ remote = Msgs
    /\ chats = {}
    /\ messages = {}
    /\ settings = NoSettings

NextFirst ==
    \/ ConnectOk
    \/ UpdateConnecting
    \/ session = "open" /\ UpdateClose(FALSE, FALSE)
    \/ UpdateOpen(MaxPasses)
    \/ \E n \in 1..MaxSnapshot : HistorySet(Jids, n)
    \/ \E p \in Passes : PassIsFirstLogin(p)
    \/ \E p \in Passes : PassPoll(p)
    \/ \E p \in Passes : PassDlStart(p)
    \/ \E p \in Passes, fails \in BOOLEAN : PassDlHistory(p, fails)
    \/ \E p \in Passes : PassDlContact(p)
    \/ \E p \in Passes : PassDlFinish(p)
    \/ \E p \in Passes : PassLoadInitial(p)
    \/ \E p \in Passes : PassLoadInitial2(p)
    \/ \E p \in Passes : PassSyncStart(p)
    \/ \E p \in Passes, fails \in BOOLEAN : PassSyncChat(p, fails)
    \/ \E p \in Passes : PassSyncFinish(p)

SpecFirst == InitFirst /\ [][NextFirst]_vars


\* The Relay Protocol Server: clients that connect, ask for the chat list and
\* leave, while a paired account with an empty database opens and receives
\* its history (which may name no chat).
InitRelay ==
    /\ InitProgram
    /\ authInfo = TRUE
    /\ remote = Msgs
    /\ chats = {}
    /\ messages = {}
    /\ settings = NoSettings

NextRelay ==
    \/ ConnectOk
    \/ UpdateConnecting
    \/ session = "open" /\ UpdateClose(FALSE, FALSE)
    \/ UpdateOpen(1)
    \/ \E c \in Clients : ClientConnect(c)
    \/ \E c \in Clients : ClientClose(c)
    \/ \E c \in Clients : GetInitialChatsCall(c)
    \/ GetInitialChatsResume
    \/ \E js \in {{}, Jids} : HistorySet(js, MaxSnapshot)
    \/ \E p \in Passes : PassIsFirstLogin(p)
    \/ \E p \in Passes : PassPoll(p)
    \/ \E p \in Passes : PassDlStart(p)
    \/ \E p \in Passes : PassDlHistory(p, FALSE)
    \/ \E p \in Passes : PassDlContact(p)
    \/ \E p \in Passes : PassDlFinish(p)
    \/ \E p \in Passes : PassLoadInitial(p)
    \/ \E p \in Passes : PassLoadInitial2(p)
    \/ \E p \in Passes : PassSyncStart(p)
    \/ \E p \in Passes : PassSyncChat(p, FALSE)
    \/ \E p \in Passes : PassSyncFinish(p)

SpecRelay == InitRelay /\ [][NextRelay]_vars

\* The batch loop of first-sync: a paired account with an empty database whose
\* chat c1 holds more than BATCH_SIZE messages, so that downloadMessageHistory
\* takes several turns, while the session may close between two turns.
InitBatch ==
    /\ InitProgram
    /\ authInfo = TRUE
    /\ remote = Msgs \cup Bulk
    /\ chats = {}
    /\ messages = {}
    /\ settings = NoSettings

NextBatch ==
    \/ ConnectOk
    \/ UpdateConnecting
    \/ session = "open" /\ UpdateClose(FALSE, FALSE)
    \/ UpdateOpen(1)
    \/ HistorySet(Jids, MaxSnapshot)
    \/ \E p \in Passes : PassIsFirstLogin(p)
    \/ \E p \in Passes : PassPoll(p)
    \/ \E p \in Passes : PassDlStart(p)
    \/ \E p \in Passes, fails \in BOOLEAN : PassDlHistory(p, fails)
    \/ \E p \in Passes : PassDlContact(p)
    \/ \E p \in Passes : PassDlFinish(p)
    \/ \E p \in Passes : PassLoadInitial(p)
    \/ \E p \in Passes : PassLoadInitial2(p)
    \/ \E p \in Passes : PassSyncStart(p)
    \/ \E p \in Passes : PassSyncChat(p, FALSE)
    \/ \E p \in Passes : PassSyncFinish(p)

SpecBatch == InitBatch /\ [][NextBatch]_vars

\* The inbound frames of the relay: one client attached at a time, a paired
\* account with the database an earlier first-sync left, and a session that
\* opens and stays open, whose incremental sync pass runs while frames arrive.
InitCommands ==
    /\ InitProgram
    /\ authInfo = TRUE
    /\ remote = Msgs
    /\ chats = SyncedDb.chats
    /\ messages = SyncedDb.messages
    /\ settings = SetSetting(NoSettings, "first_login_complete", TRUE)

NextCommands ==
    \/ ConnectOk
    \/ UpdateConnecting
    \/ UpdateOpen(1)
    \/ \E c \in Clients : wsOpen = {} /\ ClientConnect(c)
    \/ \E c \in Clients : ClientClose(c)
    \/ \E c \in Clients : FrameMalformed(c)
    \/ \E c \in Clients : CommandUnknown(c)
    \/ \E c \in Clients, data \in {"undefined", "incomplete", "complete"},
          to \in Jids, sendFails \in BOOLEAN : SendMessageCommand(c, data, to, sendFails)
    \/ \E c \in Clients, data \in {"undefined", "complete"}, jid \in Jids,
          dbFails \in BOOLEAN : GetMessageHistoryCommand(c, data, jid, dbFails)
    \/ \E p \in Passes : PassIsFirstLogin(p)
    \/ \E p \in Passes : PassLoadInitial(p)
    \/ \E p \in Passes : PassLoadInitial2(p)
    \/ \E p \in Passes : PassSyncStart(p)
    \/ \E p \in Passes : PassSyncChat(p, FALSE)
    \/ \E p \in Passes : PassSyncFinish(p)

SpecCommands == InitCommands /\ [][NextCommands]_vars

\* one continuation of the sync pass p: the event loop runs every
\* continuation of an async function whose await has resolved
PassStep(p) ==
    \/ PassIsFirstLogin(p)
    \/ PassLoadInitial(p)
    \/ PassLoadInitial2(p)
    \/ PassSyncStart(p)
    \/ PassSyncChat(p, FALSE)
    \/ PassSyncFinish(p)

\* The clients that come and go while the incremental sync pass of a paired
\* account runs: one client attached at a time, asking for the chats or not.
NextClose ==
    \/ ConnectOk
    \/ UpdateConnecting
    \/ UpdateOpen(1)
    \/ \E c \in Clients : wsOpen = {} /\ ClientConnect(c)
    \/ \E c \in Clients : ClientClose(c)
    \/ \E c \in Clients : GetInitialChatsCall(c)
    \/ GetInitialChatsResume
    \/ \E p \in Passes : PassStep(p)

SpecClose ==
    /\ InitCommands
    /\ [][NextClose]_vars
    /\ \A p \in Passes : WF_vars(PassStep(p))

\* Incremental sync over a database that holds less than the upstream: the
\* rows a history snapshot of one message per chat left, a message that
\* arrives later and is not stored by the real-time handler (notify false),
\* and a clock that moves past the rate limit.
InitMark ==
    /\ InitProgram
    /\ authInfo = TRUE
    /\ remote = Msgs
    /\ chats = HistoryChats(EmptyDb, Jids, 1, StartMs - TickMs).chats
    /\ messages = HistoryChats(EmptyDb, Jids, 1, StartMs - TickMs).messages
    /\ settings = SetSetting(NoSettings, "first_login_complete", TRUE)

NextMark ==
    \/ ConnectOk
    \/ UpdateConnecting
    \/ UpdateClose(FALSE, FALSE)
    \/ UpdateOpen(1)
    \/ \E msg \in Late, notify \in BOOLEAN : MessagesUpsert(msg, notify)
    \/ \E p \in Passes : PassIsFirstLogin(p)
    \/ \E p \in Passes : PassLoadInitial(p)
    \/ \E p \in Passes : PassLoadInitial2(p)
    \/ \E p \in Passes : PassSyncStart(p)
    \/ \E p \in Passes, fails \in BOOLEAN : PassSyncChat(p, fails)
    \/ \E p \in Passes : PassSyncFinish(p)
    \/ Tick

SpecMark == InitMark /\ [][NextMark]_vars

\* one continuation of a pass of either strategy, whose fetch may throw
PassStepAny(p) ==
    \/ PassIsFirstLogin(p)
    \/ PassPoll(p)
    \/ PassDlStart(p)
    \/ \E fails \in BOOLEAN : PassDlHistory(p, fails)
    \/ PassDlContact(p)
    \/ PassDlFinish(p)
    \/ PassLoadInitial(p)
    \/ PassLoadInitial2(p)
    \/ PassSyncStart(p)
    \/ \E fails \in BOOLEAN : PassSyncChat(p, fails)
    \/ PassSyncFinish(p)

\* The passes of both strategies with fetches that throw: a paired account
\* with an empty database, a history snapshot of one or more messages per
\* chat, and a session that closes and opens again so that an incremental
\* pass follows the first-sync.
NextPasses ==
    \/ ConnectOk
    \/ UpdateConnecting
    \/ session = "open" /\ UpdateClose(FALSE, FALSE)
    \/ UpdateOpen(1)
    \/ \E n \in 1..MaxSnapshot : HistorySet(Jids, n)
    \/ \E p \in Passes : PassStepAny(p)

SpecPasses ==
    /\ InitFirst
    /\ [][NextPasses]_vars
    /\ \A p \in Passes : WF_vars(PassStepAny(p))

\* The wait of the first-sync: a paired account with an empty database opens
\* once; the history arrives during the wait or never, or the socket store
\* holds chats when the pass reads it.
NextWait ==
    \/ ConnectOk
    \/ UpdateConnecting
    \/ UpdateOpen(1)
    \/ \E js \in StoreChats, n \in 1..MaxSnapshot : HistorySet(js, n)
    \/ \E p \in Passes, js \in StoreChats : PassFetchFromStore(p, js)
    \/ \E p \in Passes : PassStepAny(p)

SpecWait ==
    /\ InitFirst
    /\ [][NextWait]_vars
    /\ \A p \in Passes : WF_vars(PassStepAny(p))

\* The choice of the strategy: a paired account with an empty database whose
\* session opens, closes and opens again, a history that arrives or not, a
\* socket store that holds chats or not, and a database whose read for
\* isFirstTimeLogin may be rejected.
NextStrategy ==
    \/ ConnectOk
    \/ UpdateConnecting
    \/ session = "open" /\ UpdateClose(FALSE, FALSE)
    \/ UpdateOpen(1)
    \/ \E n \in 1..MaxSnapshot : HistorySet(Jids, n)
    \/ \E p \in Passes, js \in StoreChats : PassFetchFromStore(p, js)
    \/ \E p \in Passes : PassIsFirstLoginFails(p)
    \/ \E p \in Passes : PassStepAny(p)

SpecStrategy == InitFirst /\ [][NextStrategy]_vars

\* The Local Store alone: a client of the Database class saves chats and
\* messages in any order.
InitStore ==
    /\ InitProgram
    /\ authInfo = FALSE
    /\ remote = {}
    /\ chats = {}
    /\ messages = {}
    /\ settings = NoSettings

NextStore ==
    \/ \E jid \in Jids : StoreSaveChat(jid)
    \/ \E id \in TextIds, jid \in Jids, status \in Statuses :
          StoreSaveMessage(id, jid, status)

SpecStore == InitStore /\ [][NextStore]_vars

\* The Local Store with saveMessage cut at its awaits: between the two
\* statements of a saveMessage other calls of the Database methods run, the
\* clock moves, and the second statement may reject.
NextUpsert ==
    \/ \E jid \in Jids : StoreSaveChat(jid)
    \/ \E id \in TextIds, jid \in Jids, status \in {"received", "read"} :
          StoreInsertMessage(id, jid, status)
    \/ \E fails \in BOOLEAN : StoreUpdateLastMessage(fails)
    \/ Tick

SpecUpsert == InitStore /\ [][NextUpsert]_vars

\* The health_check command of the relay: a client attached, and checks that
\* are registered or not, healthy or not, or throw.
NextHealth ==
    \/ \E c \in Clients : wsOpen = {} /\ ClientConnect(c)
    \/ \E c \in Clients : ClientClose(c)
    \/ \E c \in Clients, run \in Runs : HealthCheckCommand(c, run)

SpecHealth == InitCommands /\ [][NextHealth]_vars

\* the keys and values of table settings that the backend writes
SettingKeys == {"first_login_complete", "last_sync_timestamp"}
SettingValues(key) ==
    IF key = "first_login_complete" THEN {TRUE} ELSE {StartMs, StartMs + TickMs}

\* The writes of the Local Store, each of which may find the database
\* rejecting its statement.
NextWrites ==
    \/ \E jid \in Jids : StoreSaveChat(jid)
    \/ \E jid \in Jids : StoreSaveChatFails(jid)
    \/ \E id \in TextIds, jid \in Jids, status \in {"received", "read"} :
          StoreInsertMessage(id, jid, status)
    \/ \E fails \in BOOLEAN : StoreUpdateLastMessage(fails)
    \/ \E jid \in Jids, fails \in BOOLEAN : StoreSaveContact(jid, UpName(jid), fails)
    \/ \E key \in SettingKeys, fails \in BOOLEAN : \E value \in SettingValues(key) :
          StoreSetSetting(key, value, fails)

SpecWrites == InitStore /\ [][NextWrites]_vars

\* ------------------------------------------------------------------------
\* Claims: Connection Manager
\* ------------------------------------------------------------------------
IsClosed == baileysConnectionStatus \in {"closed", "close"}

\* C1 (as stated): once five attempts in a row have failed, counted from a
\* counter of zero, the state is closed, connection_failed has been emitted
\* and no connectToWhatsApp() is due.
C1_FiveFailuresAreTerminal ==
    failStreak = 5 => IsClosed /\ terminalFailure /\ pendingConnects = 0

\* C1 (amended): the sixth failure in a row is the terminal one: after it the
\* state is closed, no session is live, connection_failed has been emitted
\* and no connectToWhatsApp() is due; before it connection_failed has not
\* been emitted.
C1_SixthFailureIsTerminal ==
    /\ failStreak >= 6 =>
          IsClosed /\ session = "none" /\ terminalFailure /\ pendingConnects = 0
    /\ failStreak < 6 => ~terminalFailure

C1_Witness ==
    /\ failStreak = 6
    /\ reconnectAttempts = MAX_RECONNECT_ATTEMPTS
    /\ terminalFailure
    /\ pendingConnects = 0

\* C2: after the handling of a close that carries the logout cause the
\* counter is zero and exactly one connectToWhatsApp() is due, whatever the
\* counter was.
C2_LogoutResetsAndSchedulesOnce ==
    lastOp = "update_close_logout" => reconnectAttempts = 0 /\ pendingConnects = 1

C2_Witness ==
    /\ lastOp = "update_close_logout"
    /\ prevAttempts = MAX_RECONNECT_ATTEMPTS
    /\ reconnectAttempts = 0
    /\ pendingConnects = 1

\* the step set the timer of a retry: a close without the logout cause, or a
\* connectToWhatsApp() that threw and whose own due call is consumed
RetryScheduled ==
    \/ lastOp' = "update_close" /\ pendingConnects' = pendingConnects + 1
    \/ lastOp' = "connect_fail" /\ pendingConnects' = pendingConnects

\* C31: the attempt counter is always between 0 and MAX_RECONNECT_ATTEMPTS,
\* and a step that schedules a retry which is not the one of a logout found
\* the counter below MAX_RECONNECT_ATTEMPTS and raised it by exactly one.
C31_CounterBoundedRetryBelowMax ==
    /\ [](reconnectAttempts \in 0..MAX_RECONNECT_ATTEMPTS)
    /\ [][RetryScheduled => /\ reconnectAttempts < MAX_RECONNECT_ATTEMPTS
                            /\ reconnectAttempts' = reconnectAttempts + 1]_vars

\* the last retry that is allowed was scheduled by a close: the counter went
\* from four to five
C31_Witness ==
    /\ lastOp = "update_close"
    /\ prevAttempts = MAX_RECONNECT_ATTEMPTS - 1
    /\ reconnectAttempts = MAX_RECONNECT_ATTEMPTS
    /\ dueCause = "retry"
    /\ pendingConnects > 0

\* C36: at most one connectToWhatsApp() is due, none is due while a session
\* is live or being established, and a connectToWhatsApp() starts only when
\* no session is live and it is the only one that is due.
C36_SingleSession ==
    /\ [](pendingConnects <= 1 /\ (session # "none" => pendingConnects = 0))
    /\ [][lastOp' \in {"connect_ok", "connect_fail"} =>
             session = "none" /\ pendingConnects = 1]_vars

\* the retry that a close scheduled has made the next session, and nothing
\* else is due
C36_Witness ==
    /\ lastOp = "connect_ok"
    /\ lastArg = "retry"
    /\ reconnectAttempts > 0
    /\ session = "new"
    /\ pendingConnects = 0

\* C9: the handling of an update that carries only a pairing challenge
\* leaves the recorded connection state as it was.
C9_QrLeavesConnectionState ==
    [][lastOp' = "update_qr" => baileysConnectionStatus' = baileysConnectionStatus]_vars

\* C10: the connectToWhatsApp() that a logout close scheduled starts with the
\* counter at zero and without stored credentials, so the session it makes is
\* not made from the old credentials and opens only after a pairing challenge.
C10_LogoutStartsFreshPairing ==
    /\ lastOp \in {"connect_ok", "connect_fail"} /\ lastArg = "logout" =>
          prevAttempts = 0 /\ ~authInfo
    /\ lastOp = "connect_ok" /\ lastArg = "logout" => ~sessionAuth

\* ------------------------------------------------------------------------
\* Claims: Sync Engine
\* ------------------------------------------------------------------------
\* C3: a step of first-sync, of incremental sync or of the real-time handler
\* that processes a message whose identifier has a row writes nothing for it
\* and emits nothing for it: the batch steps leave every stored row as it
\* was, and the real-time handler leaves the database as it was and emits no
\* event.
C3_DedupBeforeSideEffects ==
    [][/\ lastOp' \in {"download_history", "download_stored", "sync_chat"} =>
            \A m \in messages : m \in messages'
       /\ lastOp' = "messages_upsert" /\ HasMessage(Db, lastArg') =>
            messages' = messages /\ chats' = chats /\ sent' = <<>>]_vars

\* C4: when syncChatMessages handles a chat less than 60 seconds after a
\* handling of the chat that went as far as the upstream fetch, it issues no
\* upstream fetch and counts no new message.
C4_SecondHandlingFetchesNothing ==
    [][/\ lastOp' = "sync_chat"
       /\ lastChecked[lastArg'] # NoTime
       /\ now - lastChecked[lastArg'] < RATE_LIMIT_MS
       => /\ calls' = {}
          /\ messages' = messages
          /\ \A p \in Passes : pass'[p].newMessages = pass[p].newMessages]_vars

\* the upstream messages that first-sync stores
Storable(m) == getDisplayMessage(m.shape) # "" \/ getMessageType(m.shape) # "text"

\* the database holds what a first-sync that ran to its end leaves
FirstSyncHeld ==
    /\ GetSetting("first_login_complete", FALSE) = TRUE
    /\ \A m \in remote : Storable(m) => GetMessage(Db, m.id) # {}

UniqueIds == \A a, b \in messages : a.id = b.id => a = b

C11_NoCallOnceNotOpen ==
    [][baileysConnectionStatus # "open" => calls' = {}]_vars

DownloadOps == {"download_history", "download_stored"}

\* C18: once a batch of a chat's loop has held only messages that were stored
\* already, the loop issues no further fetch for the chat.
C18_NoFetchAfterStoredBatch ==
    [][\A p \in Passes : dl'[p].fetches > dl[p].fetches => ~dl[p].dry]_vars

\* C19: every fetch of a chat's batch loop asks for at most 50 messages, the
\* loop issues at most 10 fetches and stores at most 500 messages.
C19_BatchCaps ==
    /\ lastOp \in DownloadOps =>
          \A c \in calls : c.op = "fetchMessageHistory" => c.n <= 50
    /\ \A p \in Passes : dl[p].fetches <= 10 /\ dl[p].stored <= 500

\* the loop of a chat has issued its tenth fetch, each for 50 messages
C19_Witness ==
    /\ lastOp \in DownloadOps
    /\ FetchCall(lastArg, 50) \in calls
    /\ \E p \in Passes : dl[p].fetches = 10 /\ dl[p].stored > 0

\* C20: when performComprehensiveDataDownload has run to its end, the settings
\* hold first_login_complete and a sync timestamp.
C20_FirstSyncPersistsBoth ==
    lastOp = "download_finish" =>
        /\ GetSetting("first_login_complete", FALSE) = TRUE
        /\ "last_sync_timestamp" \in DOMAIN settings

\* ------------------------------------------------------------------------
\* Claims: Relay Protocol Server
\* ------------------------------------------------------------------------
InitialChatsTo(events, c) ==
    Cardinality({i \in DOMAIN events : events[i].type = "initial_chats"
                                      /\ events[i].to = c})

\* the step has produced a snapshot of the chat list
ProducesSnapshot ==
    \/ lastOp' = "history_set"
    \/ lastOp' \in {"load_initial_chats", "incremental_sync"} /\ chats # {}

\* C5: a client that asked for the chat list while there was none is sent no
\* initial_chats by a step that produces no snapshot; the step that produces
\* the first snapshot while the client is attached sends it that snapshot
\* once and clears the waiting flag.
C5_AskerGetsFirstSnapshotOnce ==
    [][asker # NoClient /\ asker \in wsOpen =>
         /\ ~ProducesSnapshot /\ ~initialChatsPayload.set =>
               InitialChatsTo(sent', asker) = 0
         /\ ProducesSnapshot /\ ~initialChatsPayload.set =>
               /\ InitialChatsTo(sent', asker) = 1
               /\ ~clientIsWaitingForChats']_vars

\* C6 (as stated): the handling of a connect made while a snapshot is cached
\* sends the snapshot to the client.
C6_SnapshotOnConnect ==
    lastOp = "ws_connection" /\ initialChatsPayload.set => Delivered("initial_chats")

\* C6 (amended): the handling of a connect sends no initial_chats; the
\* handling of a get_initial_chats command received while a snapshot is
\* cached sends that snapshot, and nothing else, to the client socket the
\* server holds, before any other event is handled.
C6_SnapshotOnCommand ==
    /\ lastOp = "ws_connection" => ~Emitted("initial_chats")
    /\ lastOp = "get_initial_chats" /\ initialChatsPayload.set =>
          sent = <<sendToFrontend("initial_chats", initialChatsPayload)>>

C6_Witness ==
    /\ lastOp = "get_initial_chats"
    /\ initialChatsPayload.set
    /\ lastArg = clientSocket
    /\ InitialChatsTo(sent, lastArg) = 1

\* the last step wrote to client c an event of type error that carries a type
ErrorSentTo(c) ==
    \E i \in DOMAIN sent :
        sent[i].type = "error" /\ sent[i].to = c /\ "type" \in DOMAIN sent[i].data

\* C13: a send_message or get_message_history command whose handling failed
\* has written to its client an event of type error that carries type,
\* message and details.
C13_FailedCommandSendsError ==
    lastOp \in {"send_message_failed", "send_message_threw",
                "get_message_history_failed", "get_message_history_threw"} =>
        \E i \in DOMAIN sent :
            /\ sent[i].type = "error"
            /\ sent[i].to = lastArg
            /\ DOMAIN sent[i].data = {"type", "message", "details"}

C15_ClientCloseLeavesSync ==
    /\ [][lastOp' = "ws_close" /\ lastArg' = clientSocket =>
             /\ clientSocket' = NoClient
             /\ clientIsWaitingForChats' = FALSE
             /\ UNCHANGED <<connVars, upVars, initialChatsPayload, storeVars,
                            syncVars>>]_vars
    /\ \A p \in Passes :
           (lastOp = "ws_close" /\ pass[p].pc # "idle")
               ~> (pass[p].pc = "idle" /\ lastOp \in {"sync_finish", "sync_none"})

\* the active client went away while a sync pass was in the middle of its
\* chats and a snapshot was cached
C15_Witness ==
    /\ lastOp = "ws_close"
    /\ clientSocket = NoClient
    /\ HasSnapshot(initialChatsPayload)
    /\ \E p \in Passes : pass[p].pc = "syncChat" /\ pass[p].idx > 1

\* the pass p moved from the chat at r.idx to the next chat of its list, or
\* to the end of the loop when that chat was the last
NextChat(p, loop, after) ==
    \/ pass'[p].pc = loop /\ pass'[p].idx = pass[p].idx + 1
                          /\ pass[p].idx < Len(pass[p].list)
    \/ pass'[p].pc = after /\ pass[p].idx = Len(pass[p].list)

CompletionEvents == {"download_complete", "sync_complete"}

C23_SyncWritesOnlyAboveMark ==
    [][lastOp' = "sync_chat" =>
         \E p \in Passes :
             /\ pass[p].pc = "syncChat" /\ pass'[p] # pass[p]
             /\ \A m \in messages' \ messages :
                    /\ m.chat_jid = lastArg'
                    /\ m.timestamp > LastMessageTime(Db, lastArg', pass[p].lastSyncTime)
                    /\ \A old \in messages :
                           old.chat_jid = lastArg' => old.timestamp < m.timestamp]_vars

\* a pass fetched the history of a chat that held a message, stored the
\* message above the mark and left the fetched message below the mark unstored
C23_Witness ==
    /\ lastOp = "sync_chat"
    /\ calls # {}
    /\ \E new, mark \in messages, u \in remote :
          /\ new.chat_jid = lastArg /\ mark.chat_jid = lastArg /\ u.jid = lastArg
          /\ mark.timestamp < new.timestamp
          /\ new.id \in {m.id : m \in Late}
          /\ u.ts * 1000 < mark.timestamp
          /\ getDisplayMessage(u.shape) # ""
          /\ ~HasMessage(Db, u.id)
    /\ \E p \in Passes : pass[p].newMessages > 0

C40_SyncCompleteOnlyAfterPersist ==
    [][(\E i \in DOMAIN sent' : sent'[i].type = "sync_complete") =>
         \E p \in Passes :
             /\ pass[p].pc = "syncFinish" /\ pass'[p].pc = "idle"
             /\ "last_sync_timestamp" \in DOMAIN settings'
             /\ settings'["last_sync_timestamp"] = pass[p].currentTime]_vars

\* C26: in every state in which the connection state is closed the cached
\* snapshot is empty (the handling of the closed notification has emptied it
\* and nothing has filled it since).
C26_NoSnapshotWhileClosed ==
    IsClosed => ~HasSnapshot(initialChatsPayload)

\* the payloads that carry a text: plain text and extended text (the model has
\* no image or video with a caption)
TextShapes == {"conversation", "extendedTextMessage"}

\* C21: the row stored for an upstream message whose payload is not a text
\* shape has a non-text type and a null text.
C21_NonTextHasNullText ==
    \A m \in messages :
        \A u \in remote :
            u.id = m.id /\ u.shape \notin TextShapes =>
                m.message_type # "text" /\ m.content = Null

\* C28: the result of runHealthChecks holds an entry for every registered
\* check, also for those registered after one that throws; the entry of a
\* check that throws is unhealthy and carries its error; an entry is healthy
\* exactly when the check reported healthy; and the overall result is healthy
\* exactly when every entry is.
C28_AllChecksRunAndAggregate ==
    lastOp = "health_check" =>
        LET run == lastArg
            res == sent[1].data
            registered == {n \in DOMAIN run : run[n] # "absent"}
        IN /\ DOMAIN res.checks = registered
           /\ \A n \in registered :
                 /\ run[n] = "throws" =>
                        ~res.checks[n].healthy /\ res.checks[n].error # Null
                 /\ res.checks[n].healthy <=> run[n] = "healthy"
           /\ res.healthy <=> \A n \in registered : res.checks[n].healthy

\* the first check threw, the ones after it ran, one of them healthy and one
\* not, and the overall result is unhealthy
C28_Witness ==
    /\ lastOp = "health_check"
    /\ lastArg["check1"] = "throws"
    /\ lastArg["check2"] = "healthy"
    /\ lastArg["errorCheck"] = "unhealthy"
    /\ sent[1].data.checks["check2"].healthy
    /\ ~sent[1].data.checks["errorCheck"].healthy
    /\ ~sent[1].data.healthy

\* the pass is inside await waitForInitialHistory()
Waiting(p) == pass[p].pc \in {"poll", "awaitHistory"}

\* C29: the wait of the first-sync for the initial snapshot polls less than
\* MAX_WAIT_MS / CHECK_INTERVAL_MS times, ends only by going on to the
\* download, and always ends, whether the Local Store holds chats, the socket
\* store held chats, or nothing arrives.
C29_FirstSyncWaitEnds ==
    /\ [](\A p \in Passes : pass[p].waitTime < MAX_WAIT_MS)
    /\ [][\A p \in Passes : Waiting(p) /\ pass'[p].pc \notin {"poll", "awaitHistory"} =>
                                pass'[p].pc = "dlStart"]_vars
    /\ \A p \in Passes : Waiting(p) ~> pass[p].pc = "dlStart"

\* where a pass of the first-sync and a pass of the incremental sync can be
FirstSyncPcs == {"poll", "awaitHistory", "dlStart", "dlHistory", "dlContact", "dlFinish"}
IncrementalPcs == {"loadInitial", "loadInitial2", "syncStart", "syncChat", "syncFinish"}

\* C32: at most one pass, of the first-sync or of the incremental sync, has
\* made its choice and not yet come to its end.
C32_AtMostOnePass ==
    Cardinality({p \in Passes : pass[p].pc \in FirstSyncPcs \cup IncrementalPcs}) <= 1

\* C30: an open notification puts exactly one pass before its choice; the
\* pass chooses the first-sync when the Local Store holds no chat at the
\* moment of the choice and the incremental sync otherwise; and a pass that
\* has chosen stays with its strategy until it ends.
C30_OneStrategyByStore ==
    [][/\ session # "open" /\ session' = "open" =>
             Cardinality({p \in Passes : pass[p].pc = "idle"
                                          /\ pass'[p].pc = "isFirstLogin"}) = 1
       /\ \A p \in Passes :
             /\ pass[p].pc = "isFirstLogin" /\ pass'[p] # pass[p] =>
                    IF chats = {} THEN pass'[p].pc \in {"poll", "awaitHistory"}
                                  ELSE pass'[p].pc = "loadInitial"
             /\ pass[p].pc \in FirstSyncPcs =>
                    pass'[p].pc \in FirstSyncPcs \cup {"idle"}
             /\ pass[p].pc \in IncrementalPcs =>
                    pass'[p].pc \in IncrementalPcs \cup {"idle"}]_vars

\* C37: the waiting flag is set only while the server holds a client socket.
C37_WaitingOnlyWhileAttached ==
    clientIsWaitingForChats => clientSocket # NoClient

\* C38: the handling of a send_message that succeeded leaves, for every chat
\* that had a row, a row with the same display name, unread count and
\* archived flag.
C38_SendKeepsChatAttributes ==
    [][lastOp' = "send_message_done" =>
         \A c \in chats :
             \E k \in chats' : /\ k.jid = c.jid
                                /\ k.name = c.name
                                /\ k.unread_count = c.unread_count
                                /\ k.is_archived = c.is_archived]_vars

\* C33: when a client that is not the active one disconnects while the
\* active one, which connected after it, is attached, the active client stays
\* the active client and the waiting flag stays as it was.
C33_SecondClientStaysActive ==
    [][/\ lastOp' = "ws_close"
       /\ clientSocket \in wsOpen
       /\ lastArg' # clientSocket
       /\ lastArg' \in wsOpen /\ lastArg' \notin wsOpen'
       => /\ clientSocket' = clientSocket
          /\ clientIsWaitingForChats' = clientIsWaitingForChats]_vars

\* C27: an event is written only to the client that is attached and open when
\* it is produced; a step that produces events while no client is attached
\* writes them to nobody and leaves the attached clients as they were; and a
\* client that attaches is handed nothing but the ready signal its own
\* connection produces, so no event produced earlier reaches it.
C27_DroppedEventsAreGone ==
    [][/\ \A i \in DOMAIN sent' :
            sent'[i].to # NoClient =>
                sent'[i].to = clientSocket' /\ sent'[i].to \in wsOpen'
       /\ clientSocket = NoClient /\ lastOp' # "ws_connection" /\ sent' # <<>> =>
            /\ \A i \in DOMAIN sent' : sent'[i].to = NoClient
            /\ clientSocket' = NoClient
            /\ wsOpen' = wsOpen
       /\ lastOp' = "ws_connection" =>
            /\ Len(sent') <= 1
            /\ \A i \in DOMAIN sent' :
                   sent'[i].type = "baileys_ready" /\ baileysConnectionStatus = "open"]_vars

\* the open notification was handled while no client was attached: its
\* events (baileys_ready, connection_status) were written to nobody
C27_Witness ==
    /\ lastOp = "update_open"
    /\ clientSocket = NoClient
    /\ wsOpen = {}
    /\ Len(sent) = 2
    /\ \A i \in DOMAIN sent : sent[i].to = NoClient

\* ------------------------------------------------------------------------
\* Claims: Local Store
\* ------------------------------------------------------------------------
\* the Database method behind a step that ended in a rejection
FailedMethod(op) ==
    CASE op = "save_chat_error" -> "saveChat"
      [] op \in {"save_message_rejected", "save_message_error"} -> "saveMessage"
      [] op = "save_contact_error" -> "saveContact"
      [] op = "set_setting_error" -> "setSetting"
      [] OTHER -> Null

WriteEnds == {"save_chat", "save_chat_error", "save_message_rejected",
              "save_message_error", "save_message_saved", "save_contact",
              "save_contact_error", "set_setting", "set_setting_error"}

C7_UpsertKeepsOneRowLatestStatus ==
    [][\A id \in MsgIds, jid \in Jids, status \in Statuses :
          /\ StoreSaveMessage(id, jid, status)
          /\ HasMessage(Db, id)
          /\ SaveMessageOk(Db, jid)
          => /\ Cardinality({m \in messages' : m.id = id}) = 1
             /\ \A m \in messages' : m.id = id => m.status = status
             /\ Cardinality(messages') = Cardinality(messages)]_vars

\* C16: getChats(limit) returns at most limit rows, and of two returned rows
\* that carry a last-message timestamp the earlier row carries the later one
\* (rows written within the same second, whose order the database picks, are
\* left out of the comparison).
C16_ChatsByLastMessage ==
    \A limit \in 1..3 :
        LET r == GetChats(Db, limit)
        IN /\ Len(r) <= limit
           /\ \A i, j \in DOMAIN r :
                 /\ i < j
                 /\ r[i].last_message_timestamp # NoTime
                 /\ r[j].last_message_timestamp # NoTime
                 /\ r[i].updated_at # r[j].updated_at
                 => r[i].last_message_timestamp >= r[j].last_message_timestamp

\* C17: getMessages(chatJid, limit, offset) returns rows of the chat only, in
\* non-decreasing order of timestamp.
C17_MessagesOfChatAscending ==
    \A jid \in Jids, limit \in 1..3, offset \in 0..2 :
        LET r == GetMessagesAt(Db, jid, limit, offset)
        IN /\ \A i \in DOMAIN r : r[i].chat_jid = jid
           /\ \A i, j \in DOMAIN r : i < j => r[i].timestamp <= r[j].timestamp

\* a chat holds two messages of different times while the other chat holds
\* none: a page of both comes back oldest first, and the page at offset 1 is
\* the older message
C17_Witness ==
    /\ lastOp = "save_message_insert"
    /\ LET r == GetMessagesAt(Db, "c1", 2, 0)
       IN Len(r) = 2 /\ r[1].timestamp < r[2].timestamp
    /\ LET r == GetMessagesAt(Db, "c1", 1, 1)
       IN Len(r) = 1 /\ r[1].id = "m1"
    /\ HasChat(Db, "c2")

\* C34: the chat row of a chat that holds message rows names, as its last
\* message, a row of the chat whose timestamp no other row of the chat
\* exceeds, and carries that timestamp.
C34_LastMessageIsNewest ==
    \A c \in chats :
        LET own == {m \in messages : m.chat_jid = c.jid}
        IN own # {} =>
             \E m \in own :
                 /\ c.last_message_id = m.id
                 /\ c.last_message_timestamp = m.timestamp
                 /\ \A o \in own : o.timestamp <= m.timestamp

\* C35: a step of saveChat or saveMessage leaves a row for every message
\* identifier that had one.
C35_OnlyCleanupRemovesMessages ==
    [][\A m \in messages : \E k \in messages' : k.id = m.id]_vars

\* C39: the last-message reference of every chat row is empty or is the
\* identifier of a message row of that chat.
C39_LastMessageExists ==
    \A c \in chats :
        \/ c.last_message_id = Null
        \/ \E m \in messages : m.id = c.last_message_id /\ m.chat_jid = c.jid

\* the chat row of jid points at the message id
PointsAt(jid, id) == \E c \in chats : c.jid = jid /\ c.last_message_id = id

\* C12: whenever a saveMessage has written its message row, the chat row of
\* the message points at it: between the two statements of the call, and
\* after a call that ended with an error.
C12_UpsertNeverHalfApplied ==
    /\ upsert.pc = "update" /\ HasMessage(Db, upsert.id) =>
          PointsAt(upsert.chatJid, upsert.id)
    /\ lastOp = "save_message_error" =>
          \A m \in messages : m.id = lastArg => PointsAt(m.chat_jid, m.id)

C7_Witness ==
    /\ lastOp = "save_message_restatus"
    /\ Cardinality({m \in messages : m.id = lastArg}) = 1
    /\ \E m \in messages : m.id = lastArg /\ m.status = "read"
    /\ Cardinality(messages) = 2

====
